---- MODULE Spec2Model ----
(***************************************************************************)
(* A model of bicit: the track analyzer (Context.load), the memoized map   *)
(* asset of the Context (Context.get_image / build_map) and the template   *)
(* substitution pass (Template.apply_context_xml).                         *)
(*                                                                         *)
(* Conventions.  Rust's Option<T> is a sequence of length 0 (None) or 1    *)
(* (Some(x)).  f64 values are integers; a speed is a fraction [num, den].  *)
(* A string that the code only copies or compares is a TLA+ string; a      *)
(* string the code splits is a sequence of its pieces.                     *)
(***************************************************************************)
EXTENDS Integers, Sequences, FiniteSets, TLC

VARIABLES
    \* Context (src/bicit-cli/src/context.rs:41-48)
    data, map_href, map_size, map_track_color,
    \* the number of successful renders so far, and the last Context call
    renders, last,
    \* the track file read by Context.load
    gpx,
    \* Template::apply_context_xml (src/bicit-cli/src/lib.rs:248-342): the
    \* events read so far and the elements they leave open, the events
    \* written, the locals change_text, svg_metrics and track_color (the
    \* color found by the scan before the pass), where the pass stands and
    \* what it returned
    reader, open_elems, writer, change_text, svg_metrics, tpl_track_color,
    status, result,
    \* Context.filename (src/bicit-cli/src/context.rs:42)
    filename,
    \* a function called on its own: the call and what it returned
    fn_call, fn_ret,
    \* BicitApp (src/bicit-ui/src/main.rs:201-230) and the map render
    \* workers it has spawned (main.rs:449-458)
    app, jobs,
    \* the PNG file the last export wrote (main.rs:783)
    exported

None == <<>>
Some(x) == <<x>>
IsSome(o) == Len(o) = 1
Unwrap(o) == o[1]

Min(a, b) == IF a <= b THEN a ELSE b
Max(a, b) == IF a >= b THEN a ELSE b
Abs(a) == IF a >= 0 THEN a ELSE -a

-----------------------------------------------------------------------------
(* Bounds of the model.                                                    *)

\* segments in a track file, over all its tracks
MaxSegs == 2
\* points at decimated indices (multiples of the stride) in a track file,
\* over all its segments
MaxDecimated == 3
\* successful map renders in one run
MaxRenders == 3
\* events of a template before its end
MaxEvents == 3
\* largest pixel width or height requested from get_image
MaxPx == 2
\* tracks in a file whose tracks carry names
MaxTracks == 2
\* characters in the path of a track file
MaxPathLen == 3
\* characters in a string given to truncate_ellipsis, and the largest limit
\* given with it (besides the limit of the track name)
MaxStrLen == 4
MaxChars == 4
\* declarations in a style attribute
MaxDecls == 2
\* points of a contour given to add_round_capped_segments
MaxContour == 3

-----------------------------------------------------------------------------
(* The track analyzer: Context.load                                        *)

\* s.points.iter().step_by(10): the stride of the decimation
Stride == 10
\* let mut elevation_max: f64 = 0.0;
ElevationMaxInit == 0
\* let mut elevation_min: f64 = 99999.0;
ElevationMinInit == 99999

\* A point: its timestamp (whole seconds), its elevation (metres) and its
\* position (metres along a line: the geodesic distance of two points is
\* |x2 - x1|).
Waypoint(t, e, x) == [time |-> t, elevation |-> e, x |-> x]
\* The points at decimated indices are drawn from these: a timestamp missing,
\* early or late; an elevation missing, negative or above 99999; standing
\* still or 100 m further.
Waypoints ==
    { Waypoint(None, Some(-5), 0),
      Waypoint(Some(0), None, 0),
      Waypoint(Some(0), Some(-5), 0),
      Waypoint(Some(10), Some(-5), 0),
      Waypoint(Some(10), Some(100000), 100),
      Waypoint(Some(30), Some(100000), 100) }
\* The point at every index that is not a multiple of the stride: its
\* timestamp and elevation lie outside everything a decimated point carries.
Filler == Waypoint(Some(1000), Some(-1000), 0)

\* Geodesic.distance(p1, p2)
Distance(p1, p2) == Abs(p2.x - p1.x)

\* Iterator::step_by(n) over a sequence
step_by(s, n) ==
    [i \in 1..((Len(s) + n - 1) \div n) |-> s[(i - 1) * n + 1]]

\* Iterator::skip(n) over a sequence
skip(s, n) == IF Len(s) <= n THEN <<>> ELSE SubSeq(s, n + 1, Len(s))

\* Iterator::zip
zip(a, b) == [i \in 1..Min(Len(a), Len(b)) |-> <<a[i], b[i]>>]

\* as if every point were paired with the next one
DecimatedPairsEveryPoint(points) ==
    zip(points, skip(points, 1))

\* i1.zip(i2) of context.rs:223-225
DecimatedPairs(points) ==
    zip(step_by(points, Stride), skip(step_by(points, Stride), 1))

\* Geodesic.length of one line string
RECURSIVE LineLength(_)
LineLength(points) ==
    IF Len(points) < 2 THEN 0
    ELSE Distance(points[1], points[2]) + LineLength(Tail(points))

\* Geodesic.length(&t.multilinestring())
RECURSIVE TrackLength(_)
TrackLength(segments) ==
    IF segments = <<>> THEN 0
    ELSE LineLength(Head(segments)) + TrackLength(Tail(segments))

\* a > b for two fractions with positive denominators
FracGt(a, b) == a.num * b.den > b.num * a.den

\* the locals of Context.load before the loop (context.rs:201-211)
LoadInit ==
    [ tot_distance |-> 0, cur_distance |-> 0, tot_time |-> 0,
      tot_moving_time |-> 0, uphill |-> 0, downhill |-> 0,
      speed_max |-> [num |-> 0, den |-> 1],
      elevation_max |-> ElevationMaxInit, elevation_min |-> ElevationMinInit,
      elev |-> <<>>, coords |-> <<>> ]

\* PairTime with every pair of a positive elapsed time counted as moving
PairTimeAlwaysMoving(acc, w1, w2, d) ==
    IF IsSome(w1.time) /\ IsSome(w2.time)
    THEN LET ptime == Unwrap(w2.time) - Unwrap(w1.time)
             speed == [num |-> d * 36, den |-> ptime * 10]
         IN  IF ptime > 0
             THEN [acc EXCEPT
                     !.tot_time = @ + ptime,
                     !.tot_moving_time = @ + ptime,
                     !.speed_max = IF FracGt(speed, @) THEN speed ELSE @]
             ELSE acc
    ELSE acc

\* PairTime with the moving time also advanced where the maximum speed is
\* raised
PairTimeCountedTwice(acc, w1, w2, d) ==
    IF IsSome(w1.time) /\ IsSome(w2.time)
    THEN LET ptime == Unwrap(w2.time) - Unwrap(w1.time)
             speed == [num |-> d * 36, den |-> ptime * 10]
             moving == IF FracGt(speed, [num |-> 1, den |-> 2]) THEN ptime ELSE 0
             faster == IF FracGt(speed, acc.speed_max) THEN ptime ELSE 0
         IN  IF ptime > 0
             THEN [acc EXCEPT
                     !.tot_time = @ + ptime,
                     !.tot_moving_time = @ + moving + faster,
                     !.speed_max = IF FracGt(speed, @) THEN speed ELSE @]
             ELSE acc
    ELSE acc

\* context.rs:231-247: the time and speed statistics of one decimated pair
\* (acc.cur_distance is already advanced by d)
PairTime(acc, w1, w2, d) ==
    IF IsSome(w1.time) /\ IsSome(w2.time)
    THEN LET ptime == Unwrap(w2.time) - Unwrap(w1.time)
             \* (d.round() / ptime as f64) * 3.6
             speed == [num |-> d * 36, den |-> ptime * 10]
         IN  IF ptime > 0
             THEN [acc EXCEPT
                     !.tot_time = @ + ptime,
                     !.tot_moving_time =
                         IF FracGt(speed, [num |-> 1, den |-> 2])
                         THEN @ + ptime ELSE @,
                     !.speed_max = IF FracGt(speed, @) THEN speed ELSE @]
             ELSE acc
    ELSE acc

\* UpdateElevationMax with the comparison turned round
UpdateElevationMaxTurned(cur, e1) == IF e1 < cur THEN e1 ELSE cur

\* context.rs:257-259
UpdateElevationMax(cur, e1) == IF e1 > cur THEN e1 ELSE cur

\* context.rs:260-262
UpdateElevationMin(cur, e1) == IF e1 < cur THEN e1 ELSE cur

\* PairElevation with a negative delta added to downhill as it is
PairElevationUnnegated(acc, w1, w2) ==
    IF IsSome(w1.elevation) /\ IsSome(w2.elevation)
    THEN LET e1 == Unwrap(w1.elevation)
             e2 == Unwrap(w2.elevation)
             d == e2 - e1
         IN  [acc EXCEPT
                !.uphill = IF d > 0 THEN @ + d ELSE @,
                !.downhill = IF d > 0 THEN @ ELSE @ + d,
                !.elevation_max = UpdateElevationMax(@, e1),
                !.elevation_min = UpdateElevationMin(@, e1),
                !.elev = Append(@, [d |-> acc.cur_distance, e |-> e1])]
    ELSE acc

\* context.rs:249-268: the elevation statistics of one decimated pair
PairElevation(acc, w1, w2) ==
    IF IsSome(w1.elevation) /\ IsSome(w2.elevation)
    THEN LET e1 == Unwrap(w1.elevation)
             e2 == Unwrap(w2.elevation)
             d == e2 - e1
         IN  [acc EXCEPT
                !.uphill = IF d > 0 THEN @ + d ELSE @,
                !.downhill = IF d > 0 THEN @ ELSE @ - d,
                !.elevation_max = UpdateElevationMax(@, e1),
                !.elevation_min = UpdateElevationMin(@, e1),
                !.elev = Append(@, [d |-> acc.cur_distance, e |-> e1])]
    ELSE acc

\* context.rs:225-269: the body of the loop over the decimated pairs
PairStep(acc, w1, w2) ==
    LET d == Distance(w1, w2)
        a1 == [acc EXCEPT !.cur_distance = @ + d]
    IN  PairElevation(PairTime(a1, w1, w2, d), w1, w2)

RECURSIVE FoldPairs(_, _)
FoldPairs(acc, pairs) ==
    IF pairs = <<>> THEN acc
    ELSE FoldPairs(PairStep(acc, Head(pairs)[1], Head(pairs)[2]), Tail(pairs))

\* context.rs:218-270: one segment
SegmentStep(acc, points) ==
    FoldPairs([acc EXCEPT !.coords = @ \o [i \in 1..Len(points) |-> points[i].x]],
              DecimatedPairs(points))

RECURSIVE FoldSegments(_, _)
FoldSegments(acc, segments) ==
    IF segments = <<>> THEN acc
    ELSE FoldSegments(SegmentStep(acc, Head(segments)), Tail(segments))

\* context.rs:215-271: one track
TrackStep(acc, t) ==
    FoldSegments([acc EXCEPT !.tot_distance = @ + TrackLength(t.segments)],
                 t.segments)

RECURSIVE FoldTracks(_, _)
FoldTracks(acc, tracks) ==
    IF tracks = <<>> THEN acc
    ELSE FoldTracks(TrackStep(acc, Head(tracks)), Tail(tracks))

\* context.rs:273-282: (tot_distance.round() / secs as f64) * 3.6, or 0.0
AverageSpeed(distance, secs) ==
    IF secs > 0 THEN [num |-> distance * 36, den |-> secs * 10]
    ELSE [num |-> 0, den |-> 1]

-----------------------------------------------------------------------------
(* The track name.  A name or a path is the sequence of its characters.    *)

\* the one character U+2026
Ellipsis == "..."

\* as if truncate_ellipsis took max_chars characters before the marker
truncate_ellipsis_takes_max(s, max_chars) ==
    IF max_chars = 0 THEN <<>>
    ELSE IF Len(s) <= max_chars THEN s
    ELSE SubSeq(s, 1, max_chars) \o <<Ellipsis>>

\* Context::truncate_ellipsis (context.rs:162-175)
truncate_ellipsis(s, max_chars) ==
    IF max_chars = 0 THEN <<>>
    ELSE IF Len(s) <= max_chars THEN s
    ELSE LET take == IF max_chars >= 1 THEN max_chars - 1 ELSE 0
         IN  SubSeq(s, 1, take) \o <<Ellipsis>>

\* the characters str::trim removes
Whitespace == {" "}

\* str::trim
RECURSIVE trim(_)
trim(s) ==
    IF s = <<>> THEN s
    ELSE IF Head(s) \in Whitespace THEN trim(Tail(s))
    ELSE IF s[Len(s)] \in Whitespace THEN trim(SubSeq(s, 1, Len(s) - 1))
    ELSE s

\* the pieces of s between the occurrences of sep
RECURSIVE Split(_, _)
Split(s, sep) ==
    IF \A i \in 1..Len(s) : s[i] # sep THEN <<s>>
    ELSE LET i == CHOOSE k \in 1..Len(s) :
                      s[k] = sep /\ \A j \in 1..(k - 1) : s[j] # sep
         IN  <<SubSeq(s, 1, i - 1)>> \o Split(SubSeq(s, i + 1, Len(s)), sep)

\* Iterator::filter on a sequence of pieces: those not in drop
RECURSIVE Without(_, _)
Without(pieces, drop) ==
    IF pieces = <<>> THEN <<>>
    ELSE (IF Head(pieces) \in drop THEN <<>> ELSE <<Head(pieces)>>)
             \o Without(Tail(pieces), drop)

\* Path::file_name: the last component of the path if it is a normal one
\* (empty pieces and "." are no components of their own; the path "." has
\* only the current directory for a component)
file_name(path) ==
    LET comps == Without(Split(path, "/"), {<<>>, <<".">>})
    IN  IF comps = <<>> THEN None
        ELSE IF comps[Len(comps)] = <<".", ".">> THEN None
        ELSE Some(comps[Len(comps)])

\* Path::file_stem: the file name up to its last '.', or all of it when it
\* has no '.' or only a leading one
file_stem(path) ==
    LET name == Unwrap(file_name(path))
        dots == {i \in 1..Len(name) : name[i] = "."}
        last_dot == CHOOSE i \in dots : \A j \in dots : j <= i
    IN  IF file_name(path) = None THEN None
        ELSE IF dots = {} \/ last_dot = 1 THEN Some(name)
        ELSE Some(SubSeq(name, 1, last_dot - 1))

\* the length a track name is truncated to (context.rs:184)
TrackNameMax == 32

\* the default name (context.rs:194)
DefaultName == <<"t", "r", "a", "c", "k">>

\* as if the fallback took the file stem whatever it is
compute_track_name_bare_stem(g, fname) ==
    LET named == {i \in 1..Len(g) : g[i].name # None}
        first == CHOOSE i \in named : \A j \in named : i <= j
        s == trim(Unwrap(g[first].name))
    IN  IF named # {} /\ s # <<>> THEN truncate_ellipsis(s, TrackNameMax)
        ELSE IF file_stem(fname) = None THEN <<>>
        ELSE Unwrap(file_stem(fname))

\* Context::compute_track_name (context.rs:177-195): find_map takes the name
\* of the first track that has one
compute_track_name(g, fname) ==
    LET named == {i \in 1..Len(g) : g[i].name # None}
        first == CHOOSE i \in named : \A j \in named : i <= j
        s == trim(Unwrap(g[first].name))
        stem == file_stem(fname)
    IN  IF named # {} /\ s # <<>> THEN truncate_ellipsis(s, TrackNameMax)
        ELSE IF stem = None \/ stem = Some(<<>>) THEN DefaultName
        ELSE Unwrap(stem)

\* context.rs:197-301: the ContextData that Context.load stores
LoadData(g) ==
    LET acc == FoldTracks(LoadInit, g)
    IN  [ track_name |-> compute_track_name(g, filename),
          distance |-> acc.tot_distance,
          speed |-> AverageSpeed(acc.tot_distance, acc.tot_time),
          speed_max |-> acc.speed_max,
          speed_moving |-> AverageSpeed(acc.tot_distance, acc.tot_moving_time),
          time |-> acc.tot_time,
          time_moving |-> acc.tot_moving_time,
          uphill |-> acc.uphill,
          downhill |-> acc.downhill,
          elevation |-> acc.elev,
          elevation_max |-> acc.elevation_max,
          elevation_min |-> acc.elevation_min,
          coords |-> acc.coords ]

-----------------------------------------------------------------------------
(* The Context and its memoized map asset                                  *)

\* Option<galileo::Color>: no override, or one of two colors
Colors == {None, Some("#22C55E"), Some("#2DB192")}
\* the identifiers get_image is asked for
ImageKeys == {"image_map", "image_other"}
\* u32 pixel sizes
Pixels == 0..MaxPx

\* map.rs:113-124 and the rest of render_track_map_href: an empty track or
\* an empty image is an error; the renderer itself (GPU, tiles, PNG encoder)
\* succeeds or fails, gpu_ok.  The href is the asset of render number n,
\* drawn for coords at w x h pixels in track_color.
render_track_map_href(coords, w, h, track_color, gpu_ok, n) ==
    IF coords = <<>> THEN None
    ELSE IF w = 0 \/ h = 0 THEN None
    ELSE IF ~gpu_ok THEN None
    ELSE Some([w |-> w, h |-> h, color |-> track_color, n |-> n])

\* as if build_map took the cached asset away before rendering
build_map_clearing(w_px, h_px, track_color, gpu_ok) ==
    LET href == IF data = None THEN None
                ELSE render_track_map_href(Unwrap(data).coords, w_px, h_px,
                                           track_color, gpu_ok, renders + 1)
    IN  IF href = None
        THEN [ok |-> FALSE, map_href |-> None, map_size |-> map_size,
              map_track_color |-> map_track_color]
        ELSE [ok |-> TRUE, map_href |-> href, map_size |-> Some(<<w_px, h_px>>),
              map_track_color |-> track_color]

\* context.rs:87-103: the memo after build_map, and whether it returned Ok
build_map(w_px, h_px, track_color, gpu_ok) ==
    LET href == IF data = None THEN None
                ELSE render_track_map_href(Unwrap(data).coords, w_px, h_px,
                                           track_color, gpu_ok, renders + 1)
    IN  IF href = None
        THEN [ok |-> FALSE, map_href |-> map_href, map_size |-> map_size,
              map_track_color |-> map_track_color]
        ELSE [ok |-> TRUE, map_href |-> href, map_size |-> Some(<<w_px, h_px>>),
              map_track_color |-> track_color]

\* needs_render without the comparison of the track color
needs_render_size_only(w_px, h_px, track_color) ==
    \/ map_href = None
    \/ (map_size = None \/ Unwrap(map_size)[1] # w_px \/ Unwrap(map_size)[2] # h_px)

\* needs_render that never reuses the cached asset
needs_render_always(w_px, h_px, track_color) == TRUE

\* context.rs:113-118
needs_render(w_px, h_px, track_color) ==
    \/ map_href = None
    \/ (map_size = None \/ Unwrap(map_size)[1] # w_px \/ Unwrap(map_size)[2] # h_px)
    \/ map_track_color # track_color

\* context.rs:105-131: what get_image returns (ret), whether it rendered
\* (render: "none", "ok" or "failed") and the memo it leaves
get_image(k, w_px, h_px, track_color, gpu_ok) ==
    LET same == [ret |-> None, render |-> "none", map_href |-> map_href,
                 map_size |-> map_size, map_track_color |-> map_track_color]
        b == build_map(w_px, h_px, track_color, gpu_ok)
    IN  IF data = None THEN same
        ELSE IF needs_render(w_px, h_px, track_color)
        THEN IF b.ok
             THEN [ret |-> IF k = "image_map" THEN b.map_href ELSE None,
                   render |-> "ok", map_href |-> b.map_href,
                   map_size |-> b.map_size, map_track_color |-> b.map_track_color]
             ELSE [ret |-> None, render |-> "failed", map_href |-> b.map_href,
                   map_size |-> b.map_size, map_track_color |-> b.map_track_color]
        ELSE [same EXCEPT !.ret = IF k = "image_map" THEN map_href ELSE None]

\* the record of a call to the Context kept in last
\* (tick alternates from one call to the next, so that a call that repeats
\* the one before it is a step of its own)
Call(op, k, w, h, c, ret, render) ==
    [op |-> op, k |-> k, w |-> w, h |-> h, color |-> c, ret |-> ret,
     render |-> render, tick |-> 1 - last.tick]

NoCall ==
    [op |-> "none", k |-> "", w |-> 0, h |-> 0, color |-> None, ret |-> None,
     render |-> "none", tick |-> 0]

\* Context::new (context.rs:51-59), before any file is read
CtxInit ==
    /\ data = None
    /\ map_href = None
    /\ map_size = None
    /\ map_track_color = None
    /\ renders = 0
    /\ last = NoCall

ctx_vars == <<data, map_href, map_size, map_track_color, renders, last>>

xml_vars ==
    <<reader, open_elems, writer, change_text, svg_metrics, tpl_track_color, status,
      result>>

fn_vars == <<fn_call, fn_ret>>

ui_vars == <<app, jobs, exported>>

\* what an operation of the Context or of the template pass leaves alone
other_vars == <<filename, fn_vars, ui_vars>>

\* Context::get_image called by any user of the Context
GetImage(k, w_px, h_px, track_color, gpu_ok) ==
    LET r == get_image(k, w_px, h_px, track_color, gpu_ok)
    IN  /\ r.render = "ok" => renders < MaxRenders
        /\ map_href' = r.map_href
        /\ map_size' = r.map_size
        /\ map_track_color' = r.map_track_color
        /\ renders' = IF r.render = "ok" THEN renders + 1 ELSE renders
        /\ last' = Call("get_image", k, w_px, h_px, track_color, r.ret, r.render)
        /\ UNCHANGED data

\* Context::cleanup_temp_files (context.rs:61-65)
CleanupTempFiles ==
    /\ map_href' = None
    /\ map_size' = None
    /\ map_track_color' = None
    /\ last' = Call("cleanup", "", 0, 0, None, None, "none")
    /\ UNCHANGED <<data, renders>>

\* Context::load (context.rs:197-301) of the file g
Load(g) ==
    /\ data' = Some(LoadData(g))
    /\ last' = Call("load", "", 0, 0, None, None, "none")
    /\ UNCHANGED <<map_href, map_size, map_track_color, renders>>

-----------------------------------------------------------------------------
(* Strings and numbers of the template                                     *)

\* str::parse::<f64> on the numerals the templates here use; any other
\* string does not parse
Numerals ==
    ("0" :> 0) @@ ("1" :> 1) @@ ("2" :> 2) @@ ("4" :> 4) @@ ("5" :> 5) @@
    ("10" :> 10) @@ ("-31" :> -31) @@ ("137" :> 137) @@ ("140" :> 140) @@
    ("169" :> 169) @@ ("174" :> 174) @@ ("132" :> 132) @@ ("-34" :> -34)

parse_f64(str) == IF str \in DOMAIN Numerals THEN Some(Numerals[str]) ELSE None

\* a fraction num / den; the quotient of two fractions
Frac(n, d) == [num |-> n, den |-> d]
FracDiv(a, b) == Frac(a.num * b.den, a.den * b.num)

\* f64::round (half away from zero) of num / den, den > 0
RoundDiv(num, den) ==
    IF num >= 0 THEN (2 * num + den) \div (2 * den)
    ELSE -((2 * (-num) + den) \div (2 * den))

\* the product of two fractions
FracMul(a, b) == Frac(a.num * b.num, a.den * b.den)

\* x.round().max(1.0) as u32 for a fraction x with a denominator that is not
\* zero; the values here are far below the largest u32, where the cast
\* saturates
RoundMax1(x) ==
    LET num == IF x.den < 0 THEN -x.num ELSE x.num
        den == Abs(x.den)
    IN  Max(1, RoundDiv(num, den))

-----------------------------------------------------------------------------
(* InputPath: the start of a template path's d attribute                   *)

\* as if InputPath::new read an absolute second pair as a relative one
InputPath_new_unshifted(path) ==
    LET Panic == [panic |-> TRUE, prefix |-> "", ss |-> <<>>, height |-> 0,
                  length |-> 0]
        prefix == path[1][1]
        Pair(it) == IF Len(it) < 2 THEN None
                    ELSE IF parse_f64(it[2]) = None \/ parse_f64(it[1]) = None
                    THEN None
                    ELSE Some(<<Unwrap(parse_f64(it[1])), Unwrap(parse_f64(it[2]))>>)
    IN  IF ~(path[1] = <<"m">> \/ path[1] = <<"M">>) THEN Panic
        ELSE IF Len(path) = 1
        THEN [panic |-> FALSE, prefix |-> prefix, ss |-> <<>>, height |-> 0,
              length |-> 0]
        ELSE IF Pair(path[2]) = None THEN Panic
        ELSE IF Len(path) = 2
        THEN [panic |-> FALSE, prefix |-> prefix, ss |-> path[2], height |-> 0,
              length |-> 0]
        ELSE IF Pair(path[3]) = None THEN Panic
        ELSE LET s == Unwrap(Pair(path[2]))
                 p == Unwrap(Pair(path[3]))
             IN  [panic |-> FALSE, prefix |-> prefix, ss |-> path[2],
                  height |-> p[2],
                  length |-> p[1]]

\* InputPath::new (bicit/src/lib.rs:20-60).  path is path.split(' '), each
\* piece given as its split(','): "M 5,174 137,140" is
\* << <<"M">>, <<"5", "174">>, <<"137", "140">> >>.  The result is the
\* InputPath, or panic: an assert, an index or an unwrap failed.
InputPath_new(path) ==
    LET Panic == [panic |-> TRUE, prefix |-> "", ss |-> <<>>, height |-> 0,
                  length |-> 0]
        prefix == path[1][1]
        Pair(it) == IF Len(it) < 2 THEN None
                    ELSE IF parse_f64(it[2]) = None \/ parse_f64(it[1]) = None
                    THEN None
                    ELSE Some(<<Unwrap(parse_f64(it[1])), Unwrap(parse_f64(it[2]))>>)
    IN  IF ~(path[1] = <<"m">> \/ path[1] = <<"M">>) THEN Panic
        ELSE IF Len(path) = 1
        THEN [panic |-> FALSE, prefix |-> prefix, ss |-> <<>>, height |-> 0,
              length |-> 0]
        ELSE IF Pair(path[2]) = None THEN Panic
        ELSE IF Len(path) = 2
        THEN [panic |-> FALSE, prefix |-> prefix, ss |-> path[2], height |-> 0,
              length |-> 0]
        ELSE IF Pair(path[3]) = None THEN Panic
        ELSE LET s == Unwrap(Pair(path[2]))
                 p == Unwrap(Pair(path[3]))
             IN  [panic |-> FALSE, prefix |-> prefix, ss |-> path[2],
                  height |-> IF prefix = "m" THEN p[2] ELSE p[2] - s[2],
                  length |-> IF prefix = "m" THEN p[1] ELSE p[1] - s[1]]

-----------------------------------------------------------------------------
(* What the Context gives the template                                     *)

\* {:02}
Pad2(n) == IF n < 10 THEN "0" \o ToString(n) ELSE ToString(n)

\* Hhmmss::hhmmss of a duration of secs seconds
hhmmss(secs) ==
    Pad2((secs \div 60) \div 60) \o ":" \o Pad2((secs \div 60) % 60) \o ":"
        \o Pad2(secs % 60)

\* format!("{:.1}km/h", v) of a speed that is not negative
FormatSpeed(v) ==
    LET tenths == RoundDiv(v.num * 10, v.den)
    IN  ToString(tenths \div 10) \o "." \o ToString(tenths % 10) \o "km/h"

\* format!("{:.0}", v) of the integer v
FormatInt(v) == IF v < 0 THEN "-" \o ToString(-v) ELSE ToString(v)

\* Context::get_string (context.rs:67-85)
get_string(k) ==
    IF data = None THEN None
    ELSE LET d == Unwrap(data)
         IN  CASE k = "value_track_name" -> Some(d.track_name)
               [] k = "value_distance" ->
                    Some(ToString(RoundDiv(d.distance, 1000)) \o "km")
               [] k = "value_speed" -> Some(FormatSpeed(d.speed))
               [] k = "value_speed_max" -> Some(FormatSpeed(d.speed_max))
               [] k = "value_speed_moving" -> Some(FormatSpeed(d.speed_moving))
               [] k = "value_uphill" -> Some(FormatInt(d.uphill) \o "m")
               [] k = "value_downhill" -> Some(FormatInt(d.downhill) \o "m")
               [] k = "value_elevation_max" ->
                    Some(FormatInt(d.elevation_max) \o "m")
               [] k = "value_elevation_min" ->
                    Some(FormatInt(d.elevation_min) \o "m")
               [] k = "value_time" -> Some(hhmmss(d.time))
               [] k = "value_moving_time" -> Some(hhmmss(d.time_moving))
               [] OTHER -> None

\* format!("{}", x) of an f64: the text of a number, given as the number it
\* prints
NumberText(f) == [num |-> f.num, den |-> f.den]

\* context.rs:141-153: the relative segments "l dx dy" of the elevation
\* profile, each offset a fraction: the sample scaled into the box minus the
\* sample before it
RECURSIVE PathSegments(_, _, _, _)
PathSegments(d, inp, i, old) ==
    IF i > Len(d.elevation) THEN <<>>
    ELSE LET el_width == Max(d.elevation_max - d.elevation_min, 100)
             val == d.elevation[i]
             dx == Frac((val.d - old.d) * inp.length, d.distance)
             dy == Frac((val.e - old.e) * inp.height, el_width)
         IN  << <<"l">>, <<NumberText(dx)>>, <<NumberText(dy)>> >>
                 \o PathSegments(d, inp, i + 1, val)

\* as if the closing segment repeated the last accumulated offset
get_path_closing_up(k, inp) ==
    IF k # "path_elevation" \/ data = None THEN None
    ELSE LET d == Unwrap(data)
             el_width == Max(d.elevation_max - d.elevation_min, 100)
             n == Len(d.elevation)
             origin == [d |-> 0, e |-> d.elevation_min]
             s2 == IF n = 0 THEN << <<"">> >>
                   ELSE PathSegments(d, inp, 1, origin)
             old_e == IF n = 0 THEN 0
                      ELSE (d.elevation[n].e - d.elevation_min) * inp.height
         IN  Some(<< <<inp.prefix>>, inp.ss >> \o s2 \o
                  << <<"l">>, <<"0">>, <<NumberText(Frac(old_e, el_width))>> >>)

\* Context::get_path (context.rs:133-160): the new d attribute, in pieces
\* as InputPath_new reads them
get_path(k, inp) ==
    IF k # "path_elevation" \/ data = None THEN None
    ELSE LET d == Unwrap(data)
             el_width == Max(d.elevation_max - d.elevation_min, 100)
             n == Len(d.elevation)
             origin == [d |-> 0, e |-> d.elevation_min]
             s2 == IF n = 0 THEN << <<"">> >>
                   ELSE PathSegments(d, inp, 1, origin)
             old_e == IF n = 0 THEN 0
                      ELSE (d.elevation[n].e - d.elevation_min) * inp.height
         IN  Some(<< <<inp.prefix>>, inp.ss >> \o s2 \o
                  << <<"l">>, <<"0">>, <<NumberText(Frac(-old_e, el_width))>> >>)

-----------------------------------------------------------------------------
(* The track file: tracks of segments of points, as the gpx reader         *)
(* delivers them to Context.load                                           *)

RECURSIVE SumLen(_)
SumLen(seqs) == IF seqs = <<>> THEN 0 ELSE Len(Head(seqs)) + SumLen(Tail(seqs))

RECURSIVE Flatten(_)
Flatten(seqs) == IF seqs = <<>> THEN <<>> ELSE Head(seqs) \o Flatten(Tail(seqs))

\* all segments of the file, in document order
AllSegments(g) == Flatten([i \in 1..Len(g) |-> g[i].segments])
\* all points of the file, in document order
AllPoints(g) == Flatten(AllSegments(g))

\* the number of points of the file at decimated indices of their segment
RECURSIVE Decimated(_)
Decimated(segs) ==
    IF segs = <<>> THEN 0
    ELSE Len(step_by(Head(segs), Stride)) + Decimated(Tail(segs))

\* a new <trk> with a first, empty <trkseg> is appended to the file
AddTrack ==
    /\ data = None
    /\ Len(AllSegments(gpx)) < MaxSegs
    /\ gpx' = Append(gpx, [name |-> None, segments |-> << <<>> >>])
    /\ UNCHANGED <<ctx_vars, xml_vars, other_vars>>

\* a new, empty <trkseg> is appended to the last track
AddSegment ==
    /\ data = None
    /\ gpx # <<>>
    /\ Len(AllSegments(gpx)) < MaxSegs
    /\ gpx' = [gpx EXCEPT ![Len(gpx)].segments = Append(@, <<>>)]
    /\ UNCHANGED <<ctx_vars, xml_vars, other_vars>>

\* <trkpt>s are appended to the last segment of the last track: the point p
\* at a decimated index (a multiple of the stride), or the run of
\* Stride - 1 points that follows it, up to the next decimated index
AddPoints(ps) ==
    /\ data = None
    /\ gpx # <<>>
    /\ LET segs == gpx[Len(gpx)].segments
       IN  /\ IF Len(segs[Len(segs)]) % Stride = 0
              THEN /\ Len(ps) = 1
                   /\ ps[1] \in Waypoints
                   /\ Decimated(AllSegments(gpx)) < MaxDecimated
              ELSE ps = [i \in 1..(Stride - 1) |-> Filler]
           /\ gpx' = [gpx EXCEPT ![Len(gpx)].segments[Len(segs)] = @ \o ps]
    /\ UNCHANGED <<ctx_vars, xml_vars, other_vars>>

\* ctx.load() on the file as it stands
LoadFile ==
    /\ data = None
    /\ Load(gpx)
    /\ UNCHANGED <<gpx, xml_vars, other_vars>>

vars == <<data, map_href, map_size, map_track_color, renders, last, gpx,
          reader, open_elems, writer, change_text, svg_metrics, tpl_track_color,
          status, result, filename, fn_call, fn_ret, app, jobs, exported>>

\* no template is being read
XmlIdle ==
    /\ reader = <<>>
    /\ open_elems = <<>>
    /\ writer = <<>>
    /\ change_text = None
    /\ svg_metrics = None
    /\ tpl_track_color = None
    /\ status = "idle"
    /\ result = None

\* no function has been called on its own
NoFnCall == [fn |-> "none"]

FnIdle == fn_call = NoFnCall /\ fn_ret = None

\* BicitApp::new (main.rs:233-266), of the fields the map job and the
\* preview use
BicitApp_new ==
    [ selected_template_idx |-> 0, gpx_path |-> None, gpx_context |-> None,
      map_job |-> None, preview_map |-> None, preview_texture |-> None,
      preview_dirty |-> TRUE, status_message |-> None ]

\* the application with no worker spawned
UiIdle == app = BicitApp_new /\ jobs = <<>> /\ exported = None

\* "t1.gpx", the characters of the name of the file the Context is made for
SampleFilename == <<"t", "1", ".", "g", "p", "x">>

LoadSpecInit ==
    CtxInit /\ gpx = <<>> /\ XmlIdle /\ filename = SampleFilename /\ FnIdle
        /\ UiIdle

LoadNext ==
    \/ AddTrack
    \/ AddSegment
    \/ \E p \in Waypoints : AddPoints(<<p>>)
    \/ AddPoints([i \in 1..(Stride - 1) |-> Filler])
    \/ LoadFile

\* The track analyzer on every file within the bounds
SpecLoad == LoadSpecInit /\ [][LoadNext]_vars

-----------------------------------------------------------------------------
(* The Context used directly: any sequence of load, get_image and          *)
(* cleanup_temp_files                                                      *)

\* the files a Context is loaded from here: no track at all, and one track
\* of one segment of two points
SampleFiles ==
    { <<>>,
      << [name |-> None, segments |-> << << [time |-> Some(0), elevation |-> Some(-5), x |-> 0],
                             Filler >> >>] >> }

CtxLoad ==
    \E g \in SampleFiles :
        /\ gpx' = g
        /\ Load(g)
        /\ UNCHANGED <<xml_vars, other_vars>>

CtxGetImage ==
    \E k \in ImageKeys, w_px \in Pixels, h_px \in Pixels, c \in Colors,
       gpu_ok \in BOOLEAN :
        /\ GetImage(k, w_px, h_px, c, gpu_ok)
        /\ UNCHANGED <<gpx, xml_vars, other_vars>>

CtxCleanup == CleanupTempFiles /\ UNCHANGED <<gpx, xml_vars, other_vars>>

CtxNext == CtxLoad \/ CtxGetImage \/ CtxCleanup

SpecCtx == LoadSpecInit /\ [][CtxNext]_vars

-----------------------------------------------------------------------------
(* The template: the events quick_xml's reader yields                      *)

\* An event: Start (<name ...>), Empty (<name .../>), End (</name>) or Text.
\* attrs are the attributes in document order, each <<key, value>>.
Ev(type, name, attrs, text) ==
    [type |-> type, name |-> name, attrs |-> attrs, text |-> text]

\* Template::get_attribute (lib.rs:122-128): the first attribute of that name
get_attribute(e, name) ==
    LET idx == {i \in 1..Len(e.attrs) : e.attrs[i][1] = name}
    IN  IF idx = {} THEN None
        ELSE Some(e.attrs[CHOOSE i \in idx : \A j \in idx : i <= j][2])

\* the colors Color::try_from_hex accepts here
HexColors == {"#22C55E", "#2DB192"}

\* an image reference of the template itself: the asset of no render
SourceHref == [w |-> 0, h |-> 0, color |-> None, n |-> 0]

\* A length ("4", "4px", "abc") is the pair of its leading run of digits,
\* '.' and '-' and of what follows the run.
\* d attributes: "M 5,174 137,140", "m 2,169 10,-31", "M0 0" and
\* "M 0,0 L 10,10"
PathAbs == << <<"M">>, <<"5", "174">>, <<"137", "140">> >>
PathRel == << <<"m">>, <<"2", "169">>, <<"10", "-31">> >>
PathGlued == << <<"M0">>, <<"0">> >>
PathLine == << <<"M">>, <<"0", "0">>, <<"L">>, <<"10", "10">> >>

TspanEvents ==
    { Ev("Start", "tspan", attrs, "") :
        attrs \in { <<>>,
                    << <<"id", "value_distance">> >>,
                    << <<"id", "text_label">> >> } }

SvgEvents ==
    { Ev("Start", "svg", attrs, "") :
        attrs \in { << <<"width", <<"4", "">>>>, <<"height", <<"4", "px">>>> >>,
                    << <<"width", <<"4", "">>>>, <<"height", <<"4", "">>>>,
                       <<"viewBox", <<"0", "0", "2", "2">>>> >>,
                    << <<"width", <<"", "abc">>>>, <<"height", <<"4", "">>>> >> } }

PathEvents ==
    { Ev("Empty", "path", attrs, "") :
        attrs \in { << <<"id", "path_elevation">>, <<"d", PathAbs>>,
                       <<"stroke", "#22C55E">> >>,
                    << <<"d", PathRel>>, <<"id", "path_elevation">> >>,
                    << <<"id", "path_elevation">>, <<"d", PathGlued>> >>,
                    << <<"id", "path_frame">>, <<"d", PathLine>> >>,
                    << <<"d", PathLine>> >> } }

ImageEvents ==
    { Ev("Empty", "image", attrs, "") :
        attrs \in { << <<"width", <<"2", "">>>>, <<"height", <<"1", "">>>>,
                       <<"xlink:href", SourceHref>>, <<"id", "image_map">>,
                       <<"sodipodi:absref", SourceHref>> >>,
                    << <<"id", "image_map">>, <<"width", <<"1", "">>>>,
                       <<"height", <<"1", "">>>>, <<"xlink:href", SourceHref>> >>,
                    << <<"id", "image_map">>, <<"height", <<"1", "">>>>,
                       <<"xlink:href", SourceHref>> >>,
                    << <<"id", "image_map">>, <<"width", <<"1", "">>>>,
                       <<"height", <<"1", "px">>>>, <<"xlink:href", SourceHref>> >>,
                    << <<"id", "image_logo">>, <<"width", <<"1", "">>>>,
                       <<"height", <<"1", "">>>>, <<"xlink:href", SourceHref>> >> } }

TextEvents == { Ev("Text", "", <<>>, t) : t \in {"132", "TEST"} }

\* events with no arm of their own: another element opened, a tspan with
\* no content
OtherEvents ==
    { Ev("Start", "text", <<>>, ""),
      Ev("Empty", "tspan", << <<"id", "value_distance">> >>, "") }

\* a style attribute is the sequence of its characters
HexDigits ==
    { "0", "1", "2", "3", "4", "5", "6", "7", "8", "9",
      "a", "b", "c", "d", "e", "f", "A", "B", "C", "D", "E", "F" }

\* "stroke:"
Needle == <<"s", "t", "r", "o", "k", "e", ":">>

\* str::find: the first index at which needle occurs in s, if any
find(s, needle) ==
    LET at == {i \in 1..(Len(s) - Len(needle) + 1) :
                  SubSeq(s, i, i + Len(needle) - 1) = needle}
    IN  IF at = {} THEN None
        ELSE Some(CHOOSE i \in at : \A j \in at : i <= j)

\* str::trim_start
RECURSIVE trim_start(_)
trim_start(s) ==
    IF s # <<>> /\ Head(s) \in Whitespace THEN trim_start(Tail(s)) ELSE s

\* lib.rs:140-147: the number of hex digits s starts with
RECURSIVE HexLen(_)
HexLen(s) ==
    IF s # <<>> /\ Head(s) \in HexDigits THEN 1 + HexLen(Tail(s)) ELSE 0

\* Template::extract_hex_stroke_from_style (lib.rs:130-154)
extract_hex_stroke_from_style(style) ==
    LET idx == find(style, Needle)
        after == trim_start(SubSeq(style, Unwrap(idx) + Len(Needle), Len(style)))
        hex == Tail(after)
        hex_len == HexLen(hex)
    IN  IF idx = None THEN None
        ELSE IF after = <<>> \/ Head(after) # "#" THEN None
        ELSE IF hex_len \in {6, 8} THEN Some(<<"#">> \o SubSeq(hex, 1, hex_len))
        ELSE None

\* the upper case of a hex digit
Upper(c) ==
    CASE c = "a" -> "A" [] c = "b" -> "B" [] c = "c" -> "C" [] c = "d" -> "D"
      [] c = "e" -> "E" [] c = "f" -> "F" [] OTHER -> c

\* the string of the characters of s, hex digits in upper case
RECURSIVE UpperString(_)
UpperString(s) ==
    IF s = <<>> THEN "" ELSE Upper(Head(s)) \o UpperString(Tail(s))

\* Color::try_from_hex for the colors of the templates here; the case of the
\* digits makes no difference
try_from_hex(hex) == IF hex \in HexColors THEN Some(hex) ELSE None

\* lib.rs:164-183: the track color an element gives the scan, if any: that
\* of its stroke attribute, or else that of the stroke in its style
ElementColor(e) ==
    LET stroke == get_attribute(e, "stroke")
        style == get_attribute(e, "style")
        in_style == extract_hex_stroke_from_style(Unwrap(style))
    IN  IF ~(e.type \in {"Start", "Empty"}
               /\ get_attribute(e, "id") = Some("path_elevation"))
        THEN None
        ELSE IF stroke # None /\ try_from_hex(Unwrap(stroke)) # None
        THEN try_from_hex(Unwrap(stroke))
        ELSE IF style # None /\ in_style # None
        THEN try_from_hex(UpperString(Unwrap(in_style)))
        ELSE None

\* Template::extract_track_color_from_template (lib.rs:156-192) over the
\* events up to the end of the input or the first error
RECURSIVE extract_track_color_from_template(_)
extract_track_color_from_template(events) ==
    IF events = <<>> THEN None
    ELSE IF ElementColor(Head(events)) # None THEN ElementColor(Head(events))
    ELSE extract_track_color_from_template(Tail(events))

-----------------------------------------------------------------------------
(* Template::apply_context_xml                                             *)

\* parse_svg_length_to_px (lib.rs:21-55) in pixels, as a fraction
parse_svg_length_to_px(len) ==
    LET value == parse_f64(len[1])
        unit == len[2]
        v == Unwrap(value)
    IN  IF len[1] = "" \/ value = None THEN None
        ELSE CASE unit \in {"", "px"} -> Some(Frac(v, 1))
               [] unit = "mm" -> Some(Frac(v * 960, 254))
               [] unit = "cm" -> Some(Frac(v * 9600, 254))
               [] unit = "in" -> Some(Frac(v * 96, 1))
               [] unit = "pt" -> Some(Frac(v * 96, 72))
               [] OTHER -> None

\* parse_viewbox (lib.rs:57-72) of the non-empty pieces of the attribute
parse_viewbox(parts) ==
    IF Len(parts) # 4 THEN None
    ELSE IF \E i \in 1..4 : parse_f64(parts[i]) = None THEN None
    ELSE Some([i \in 1..4 |-> Frac(Unwrap(parse_f64(parts[i])), 1)])

\* lib.rs:262-288: the SvgMetrics a first <svg> gives, if any
RootMetrics(e) ==
    LET svg_w == get_attribute(e, "width")
        svg_h == get_attribute(e, "height")
        view_box == get_attribute(e, "viewBox")
        svg_px_w == parse_svg_length_to_px(Unwrap(svg_w))
        svg_px_h == parse_svg_length_to_px(Unwrap(svg_h))
        parsed == IF view_box = None THEN None
                  ELSE parse_viewbox(Unwrap(view_box))
        one == Frac(1, 1)
        vb == IF parsed # None THEN Unwrap(parsed)
              ELSE << Frac(0, 1), Frac(0, 1),
                      IF svg_px_w = None THEN one ELSE Unwrap(svg_px_w),
                      IF svg_px_h = None THEN one ELSE Unwrap(svg_px_h) >>
    IN  IF svg_w = None \/ svg_h = None THEN None
        ELSE IF svg_px_w = None \/ svg_px_h = None THEN None
        ELSE Some([svg_px_w |-> Unwrap(svg_px_w), svg_px_h |-> Unwrap(svg_px_h),
                   viewbox_w |-> vb[3], viewbox_h |-> vb[4]])

\* as if image_pixels had no floor of one pixel
image_pixels_unfloored(metrics, image_w_units, image_h_units) ==
    LET scale_x == FracDiv(metrics.svg_px_w, metrics.viewbox_w)
        scale_y == FracDiv(metrics.svg_px_h, metrics.viewbox_h)
        w == FracMul(image_w_units, scale_x)
        h == FracMul(image_h_units, scale_y)
    IN  << IF w.num < 0 THEN 0 ELSE RoundDiv(w.num, w.den),
           IF h.num < 0 THEN 0 ELSE RoundDiv(h.num, h.den) >>

\* image_pixels (lib.rs:74-81), the units fractions
image_pixels(metrics, image_w_units, image_h_units) ==
    LET scale_x == FracDiv(metrics.svg_px_w, metrics.viewbox_w)
        scale_y == FracDiv(metrics.svg_px_h, metrics.viewbox_h)
    IN  << RoundMax1(FracMul(image_w_units, scale_x)),
           RoundMax1(FracMul(image_h_units, scale_y)) >>

\* lib.rs:227-233: the size of an image when there are no metrics:
\* 1000 wide and 1000 / max(w / h, 0.0001) high
fallback_pixels(w_units, h_units) ==
    LET num == IF h_units < 0 THEN -w_units ELSE w_units
        den == Abs(h_units)
    IN  << 1000,
           IF den = 0 THEN (IF num > 0 THEN 1 ELSE 10000000)
           ELSE IF num * 10000 < den THEN 10000000
           ELSE RoundMax1(Frac(1000 * den, num)) >>

\* the part of a handle_xml result that is not a call of get_image
NoImageCall ==
    [called |-> FALSE, w_px |-> 0, h_px |-> 0, color |-> None,
     r |-> [ret |-> None, render |-> "none", map_href |-> map_href,
            map_size |-> map_size, map_track_color |-> map_track_color]]

\* Template::handle_xml (lib.rs:194-246) for one element: the replacement
\* it returns (ret), whether it panicked, and its call of get_image
handle_xml(e, metrics, track_color, gpu_ok) ==
    LET id_t == get_attribute(e, "id")
        id == Unwrap(id_t)
        Result(ret, panic, call) == [ret |-> ret, panic |-> panic, call |-> call]
        Nothing == Result(None, FALSE, NoImageCall)
        pathd == get_attribute(e, "d")
        inp == InputPath_new(Unwrap(pathd))
        wd == get_attribute(e, "width")
        hd == get_attribute(e, "height")
        \* wd.parse::<f64>(): the whole string is a number
        w_units == IF Unwrap(wd)[2] = "" THEN parse_f64(Unwrap(wd)[1]) ELSE None
        h_units == IF Unwrap(hd)[2] = "" THEN parse_f64(Unwrap(hd)[1]) ELSE None
        px == IF metrics # None
              THEN image_pixels(Unwrap(metrics), Frac(Unwrap(w_units), 1),
                                Frac(Unwrap(h_units), 1))
              ELSE fallback_pixels(Unwrap(w_units), Unwrap(h_units))
        color_override == IF id = "image_map" THEN track_color ELSE None
        r == get_image(id, px[1], px[2], color_override, gpu_ok)
    IN  IF id_t = None THEN Nothing
        ELSE CASE e.name = "tspan" -> Result(get_string(id), FALSE, NoImageCall)
               [] e.name = "path" ->
                    IF pathd = None THEN Nothing
                    ELSE IF inp.panic THEN Result(None, TRUE, NoImageCall)
                    ELSE Result(get_path(id, inp), FALSE, NoImageCall)
               [] e.name = "image" ->
                    IF wd = None \/ hd = None THEN Nothing
                    ELSE IF w_units = None \/ h_units = None THEN Nothing
                    ELSE Result(r.ret, FALSE,
                                [called |-> TRUE, w_px |-> px[1], h_px |-> px[2],
                                 color |-> color_override, r |-> r])
               [] OTHER -> Nothing

\* Iterator::filter on the attributes: those whose key is not in keys
RECURSIVE WithoutKeys(_, _)
WithoutKeys(attrs, keys) ==
    IF attrs = <<>> THEN <<>>
    ELSE (IF Head(attrs)[1] \in keys THEN <<>> ELSE <<Head(attrs)>>)
             \o WithoutKeys(Tail(attrs), keys)

\* lib.rs:300-306: the path element written for a new d
RewrittenPath(e, pd) ==
    Ev("Empty", "path", Append(WithoutKeys(e.attrs, {"d"}), <<"d", pd>>), "")

\* as if the image arm filtered out the xlink:href attribute alone
RewrittenImageKeepsAbsref(e, pd) ==
    Ev("Empty", "image",
       Append(WithoutKeys(e.attrs, {"xlink:href"}), <<"xlink:href", pd>>), "")

\* lib.rs:315-322: the image element written for a new reference
RewrittenImage(e, pd) ==
    Ev("Empty", "image",
       Append(WithoutKeys(e.attrs, {"xlink:href", "sodipodi:absref"}),
              <<"xlink:href", pd>>), "")

\* as if the image arm rebuilt the element whatever handle_xml returned
ImageWrittenAlwaysRebuilt(e, pd) ==
    IF pd # None THEN RewrittenImage(e, Unwrap(pd))
    ELSE Ev("Empty", "image",
            WithoutKeys(e.attrs, {"xlink:href", "sodipodi:absref"}), "")

\* lib.rs:313-326: the element the image arm writes for what handle_xml
\* returned
ImageWritten(e, pd) ==
    IF pd # None THEN RewrittenImage(e, Unwrap(pd)) ELSE e

\* the reader can yield e next: the pass is running, the template is not at
\* its bound, and e agrees with the track color the scan of the whole
\* template found
Reads(e) ==
    /\ status = "running"
    /\ Len(reader) < MaxEvents
    /\ extract_track_color_from_template(Append(reader, e))
           \in {None, tpl_track_color}

\* the elements open after e
Opened(e) ==
    CASE e.type = "Start" -> Append(open_elems, e.name)
      [] e.type = "End" -> SubSeq(open_elems, 1, Len(open_elems) - 1)
      [] OTHER -> open_elems

\* lib.rs:248-257: the pass begins; the scan of the template has found the
\* track color c
XmlBegin(c) ==
    /\ status = "idle"
    /\ status' = "running"
    /\ tpl_track_color' = c
    /\ reader' = <<>>
    /\ open_elems' = <<>>
    /\ writer' = <<>>
    /\ change_text' = None
    /\ svg_metrics' = None
    /\ result' = None
    /\ UNCHANGED <<ctx_vars, gpx, other_vars>>

\* lib.rs:261-291: Start of an svg element
XmlSvgStart(e) ==
    /\ Reads(e)
    /\ reader' = Append(reader, e)
    /\ open_elems' = Opened(e)
    /\ svg_metrics' = IF svg_metrics = None THEN RootMetrics(e) ELSE svg_metrics
    /\ writer' = Append(writer, e)
    /\ UNCHANGED <<ctx_vars, gpx, other_vars, change_text, tpl_track_color, status, result>>

\* lib.rs:292-296: Start of a tspan element
XmlTspanStart(e) ==
    /\ Reads(e)
    /\ reader' = Append(reader, e)
    /\ open_elems' = Opened(e)
    /\ change_text' = handle_xml(e, svg_metrics, tpl_track_color, TRUE).ret
    /\ writer' = Append(writer, e)
    /\ UNCHANGED <<ctx_vars, gpx, other_vars, svg_metrics, tpl_track_color, status, result>>

\* lib.rs:297-311: an empty path element
XmlPathEmpty(e) ==
    LET pd == handle_xml(e, svg_metrics, tpl_track_color, TRUE)
    IN  /\ Reads(e)
        /\ reader' = Append(reader, e)
        /\ IF pd.panic
           THEN status' = "panicked" /\ UNCHANGED writer
           ELSE /\ UNCHANGED status
                /\ writer' = Append(writer, IF pd.ret # None
                                            THEN RewrittenPath(e, Unwrap(pd.ret))
                                            ELSE e)
        /\ UNCHANGED <<ctx_vars, gpx, other_vars, open_elems, change_text, svg_metrics,
                       tpl_track_color, result>>

\* lib.rs:312-327: an empty image element
XmlImageEmpty(e, gpu_ok) ==
    LET pd == handle_xml(e, svg_metrics, tpl_track_color, gpu_ok)
        c == pd.call
    IN  /\ Reads(e)
        /\ c.r.render = "ok" => renders < MaxRenders
        /\ reader' = Append(reader, e)
        /\ writer' = Append(writer, ImageWritten(e, pd.ret))
        /\ map_href' = c.r.map_href
        /\ map_size' = c.r.map_size
        /\ map_track_color' = c.r.map_track_color
        /\ renders' = IF c.r.render = "ok" THEN renders + 1 ELSE renders
        /\ last' = IF c.called
                   THEN Call("get_image", Unwrap(get_attribute(e, "id")), c.w_px,
                             c.h_px, c.color, c.r.ret, c.r.render)
                   ELSE last
        /\ UNCHANGED <<data, gpx, other_vars, open_elems, change_text, svg_metrics,
                       tpl_track_color, status, result>>

\* as if the text arm read the pending replacement without taking it
XmlTextKeepsValue(e) ==
    /\ Reads(e)
    /\ reader' = Append(reader, e)
    /\ writer' = Append(writer, IF change_text # None
                                THEN Ev("Text", "", <<>>, Unwrap(change_text))
                                ELSE e)
    /\ UNCHANGED <<ctx_vars, gpx, other_vars, open_elems, change_text, svg_metrics,
                   tpl_track_color, status, result>>

\* lib.rs:328-334: a text event
XmlText(e) ==
    /\ Reads(e)
    /\ reader' = Append(reader, e)
    /\ writer' = Append(writer, IF change_text # None
                                THEN Ev("Text", "", <<>>, Unwrap(change_text))
                                ELSE e)
    /\ change_text' = None
    /\ UNCHANGED <<ctx_vars, gpx, other_vars, open_elems, svg_metrics, tpl_track_color,
                   status, result>>

\* lib.rs:336: any other event is written as it is
XmlOther(e) ==
    /\ Reads(e)
    /\ reader' = Append(reader, e)
    /\ open_elems' = Opened(e)
    /\ writer' = Append(writer, e)
    /\ UNCHANGED <<ctx_vars, gpx, other_vars, change_text, svg_metrics, tpl_track_color,
                   status, result>>

\* lib.rs:335 and 341: the end of the template; the written events are
\* returned
XmlEof ==
    /\ status = "running"
    /\ extract_track_color_from_template(reader) = tpl_track_color
    /\ status' = "done"
    /\ result' = Some(writer)
    /\ UNCHANGED <<ctx_vars, gpx, other_vars, reader, open_elems, writer, change_text,
                   svg_metrics, tpl_track_color>>

\* as if the pass stopped at an error the way the scan before it does
\* (lib.rs:187) and returned what it had written
XmlErrBreaks ==
    /\ status = "running"
    /\ extract_track_color_from_template(reader) = tpl_track_color
    /\ status' = "parse_error"
    /\ result' = Some(writer)
    /\ UNCHANGED <<ctx_vars, gpx, other_vars, reader, open_elems, writer, change_text,
                   svg_metrics, tpl_track_color>>

\* lib.rs:337: the reader yields an error (where the scan before the pass
\* stopped too, lib.rs:187)
XmlErr ==
    /\ status = "running"
    /\ extract_track_color_from_template(reader) = tpl_track_color
    /\ status' = "parse_error"
    /\ UNCHANGED <<ctx_vars, gpx, other_vars, reader, open_elems, writer, change_text,
                   svg_metrics, tpl_track_color, result>>

\* the file the Context of a template pass is loaded from: one track of one
\* segment of Stride + 1 points, 100 m long
TemplateFile ==
    << [name |-> None, segments |->
          << <<Waypoint(Some(0), Some(-5), 0)>>
             \o [i \in 1..(Stride - 1) |-> Filler]
             \o <<Waypoint(Some(10), Some(100000), 100)>> >>] >>

\* ctx.load() before the pass
XmlLoad ==
    /\ status = "idle"
    /\ data = None
    /\ gpx' = TemplateFile
    /\ Load(TemplateFile)
    /\ UNCHANGED <<xml_vars, other_vars>>

XmlNext ==
    \/ XmlLoad
    \/ \E c \in {None, Some("#22C55E")} : XmlBegin(c)
    \/ \E e \in SvgEvents : XmlSvgStart(e)
    \/ \E e \in TspanEvents : XmlTspanStart(e)
    \/ \E e \in PathEvents : XmlPathEmpty(e)
    \/ \E e \in ImageEvents, gpu_ok \in BOOLEAN : XmlImageEmpty(e, gpu_ok)
    \/ \E e \in TextEvents : XmlText(e)
    \/ \E e \in OtherEvents : XmlOther(e)
    \/ open_elems # <<>> /\ XmlOther(Ev("End", open_elems[Len(open_elems)], <<>>, ""))
    \/ XmlEof
    \/ XmlErr

\* One substitution pass over every template within the bounds, with the
\* Context loaded or not
SpecXml == LoadSpecInit /\ [][XmlNext]_vars

-----------------------------------------------------------------------------
(* Named tracks: Context.load on files whose tracks carry names, under     *)
(* every path within the bounds                                            *)

\* the strings of at most n characters out of chars
Strings(chars, n) == UNION { [1..k -> chars] : k \in 0..n }

\* "abcdefghijklmnopqrstuvwxyz0123456789" (context.rs:328)
LongName ==
    << "a", "b", "c", "d", "e", "f", "g", "h", "i", "j", "k", "l", "m", "n",
       "o", "p", "q", "r", "s", "t", "u", "v", "w", "x", "y", "z", "0", "1",
       "2", "3", "4", "5", "6", "7", "8", "9" >>

\* the <name> of a <trk>: none, empty, blank, with blanks around it, short,
\* and longer than the limit
TrackNames ==
    { None, Some(<<>>), Some(<<" ">>), Some(<<" ", "a", "b", " ">>),
      Some(<<"c">>), Some(LongName) }

Filenames == Strings({"a", ".", "/"}, MaxPathLen)

\* a <trk> with this name and no segment is appended to the file
AddNamedTrack(name) ==
    /\ data = None
    /\ Len(gpx) < MaxTracks
    /\ gpx' = Append(gpx, [name |-> name, segments |-> <<>>])
    /\ UNCHANGED <<ctx_vars, xml_vars, other_vars>>

\* Context::new(filename) for any path
NameInit ==
    /\ CtxInit /\ gpx = <<>> /\ XmlIdle /\ FnIdle /\ UiIdle
    /\ filename \in Filenames

NameNext ==
    \/ \E name \in TrackNames : AddNamedTrack(name)
    \/ LoadFile

SpecName == NameInit /\ [][NameNext]_vars

-----------------------------------------------------------------------------
(* Functions called on their own, on every input within the bounds         *)

\* what a call of a function leaves alone
fn_frame == <<ctx_vars, gpx, xml_vars, filename, ui_vars>>

CallTruncateEllipsis ==
    \E s \in Strings({"a", "b"}, MaxStrLen) \cup {LongName},
       max_chars \in 0..MaxChars \cup {TrackNameMax} :
        /\ fn_call = NoFnCall
        /\ fn_call' = [fn |-> "truncate_ellipsis", s |-> s,
                       max_chars |-> max_chars]
        /\ fn_ret' = truncate_ellipsis(s, max_chars)
        /\ UNCHANGED fn_frame

\* the pixel sizes and viewBox sizes of a document, the sizes of an image
\* in its units: those of dev.svg (1080, 285.75, 158.75, 190.5; lib.rs:362-
\* 370) and small ones, an image of no or of negative size among them
PxSizes == {Frac(1, 1), Frac(1080, 1)}
ViewSizes == {Frac(1, 1), Frac(3, 1), Frac(1143, 4)}
ImageUnits ==
    {Frac(-1, 1), Frac(0, 1), Frac(1, 2), Frac(1, 1), Frac(3, 2),
     Frac(635, 4), Frac(381, 2)}

CallImagePixels ==
    \E W \in PxSizes, H \in PxSizes, vw \in ViewSizes, vh \in ViewSizes,
       w \in ImageUnits, h \in ImageUnits :
        LET metrics == [svg_px_w |-> W, svg_px_h |-> H, viewbox_w |-> vw,
                        viewbox_h |-> vh]
        IN  /\ fn_call = NoFnCall
            /\ fn_call' = [fn |-> "image_pixels", metrics |-> metrics,
                           image_w_units |-> w, image_h_units |-> h]
            /\ fn_ret' = image_pixels(metrics, w, h)
            /\ UNCHANGED fn_frame

\* the declarations of a style: fill:none, stroke:none, stroke:#2db192,
\* "stroke: #2DB192FF", stroke:#2db19, stroke:#2db192!x,
\* -inkscape-stroke:none, stroke-width:1 and stroke:#2db192a
Declarations ==
    { <<"f", "i", "l", "l", ":", "n", "o", "n", "e">>,
      <<"s", "t", "r", "o", "k", "e", ":", "n", "o", "n", "e">>,
      <<"s", "t", "r", "o", "k", "e", ":", "#", "2", "d", "b", "1", "9", "2">>,
      <<"s", "t", "r", "o", "k", "e", ":", " ", "#", "2", "D", "B", "1", "9", "2", "F", "F">>,
      <<"s", "t", "r", "o", "k", "e", ":", "#", "2", "d", "b", "1", "9">>,
      <<"s", "t", "r", "o", "k", "e", ":", "#", "2", "d", "b", "1", "9", "2", "!", "x">>,
      <<"-", "i", "n", "k", "s", "c", "a", "p", "e", "-", "s", "t", "r", "o", "k", "e", ":", "n", "o", "n", "e">>,
      <<"s", "t", "r", "o", "k", "e", "-", "w", "i", "d", "t", "h", ":", "1">>,
      <<"s", "t", "r", "o", "k", "e", ":", "#", "2", "d", "b", "1", "9", "2", "a">> }

\* the declarations joined by ';'
RECURSIVE JoinDeclarations(_)
JoinDeclarations(ds) ==
    IF ds = <<>> THEN <<>>
    ELSE IF Len(ds) = 1 THEN ds[1]
    ELSE ds[1] \o <<";">> \o JoinDeclarations(Tail(ds))

Styles == { JoinDeclarations(ds) : ds \in Strings(Declarations, MaxDecls) }

CallExtractHexStroke ==
    \E style \in Styles :
        /\ fn_call = NoFnCall
        /\ fn_call' = [fn |-> "extract_hex_stroke_from_style", style |-> style]
        /\ fn_ret' = extract_hex_stroke_from_style(style)
        /\ UNCHANGED fn_frame

\* the coordinates of the d attributes given to InputPath::new
Coordinates == {"0", "5", "132", "137", "140", "174", "-34"}

\* d attributes "m x1,y1 x2,y2" and "M x1,y1 x2,y2", those with a further
\* "l 0,0", and the shorter or misshaped "M", "M 5,174", "M0 0" and
\* "M 0,0 L 10,10"
Descriptors ==
    LET good == { << <<c>>, <<x1, y1>>, <<x2, y2>> >> :
                    c \in {"m", "M"}, x1 \in Coordinates, y1 \in Coordinates,
                    x2 \in Coordinates, y2 \in Coordinates }
    IN  good \cup { PathAbs \o << <<"l">>, <<"0", "0">> >>,
                    PathRel \o << <<"l">>, <<"0", "0">> >>,
                    << <<"M">> >>, << <<"M">>, <<"5", "174">> >>,
                    PathGlued, PathLine }

CallInputPathNew ==
    \E path \in Descriptors :
        /\ fn_call = NoFnCall
        /\ fn_call' = [fn |-> "InputPath_new", path |-> path]
        /\ fn_ret' = InputPath_new(path)
        /\ UNCHANGED fn_frame

\* Point3: x, y and z
Points3 == {<<x, y, z>> : x \in {0, 1}, y \in {0, 1}, z \in {0, 1}}

\* contours, open and closed, of up to MaxContour points
Contours ==
    UNION { [points : [1..n -> Points3], closed : BOOLEAN] : n \in 0..MaxContour }

\* add_round_capped_segments (map.rs:63-94): the two-point segments given
\* to bundle.add_line, in order.  The loop (map.rs:77-86) leaves in prev the
\* last point that differs from the one before it.
RECURSIVE LoopSegments(_, _)
LoopSegments(prev, rest) ==
    IF rest = <<>> THEN << >>
    ELSE IF Head(rest) = prev THEN LoopSegments(prev, Tail(rest))
    ELSE << <<prev, Head(rest)>> >> \o LoopSegments(Head(rest), Tail(rest))

add_round_capped_segments(contour) ==
    IF contour.points = <<>> THEN << >>
    ELSE LET first == contour.points[1]
             drawn == LoopSegments(first, Tail(contour.points))
             prev == IF drawn = << >> THEN first ELSE drawn[Len(drawn)][2]
         IN  \* && binds tighter than || (map.rs:88-90)
             IF \/ (contour.closed /\ prev[1] # first[1])
                \/ prev[2] # first[2]
                \/ prev[3] # first[3]
             THEN Append(drawn, <<prev, first>>)
             ELSE drawn

CallAddRoundCappedSegments ==
    \E contour \in Contours :
        /\ fn_call = NoFnCall
        /\ fn_call' = [fn |-> "add_round_capped_segments", contour |-> contour]
        /\ fn_ret' = add_round_capped_segments(contour)
        /\ UNCHANGED fn_frame

FnNext ==
    \/ CallTruncateEllipsis
    \/ CallImagePixels
    \/ CallExtractHexStroke
    \/ CallInputPathNew
    \/ CallAddRoundCappedSegments

SpecFn == LoadSpecInit /\ [][FnNext]_vars

-----------------------------------------------------------------------------
(* The elevation path of a loaded track: Context.load on every file within *)
(* the bounds, then get_path for a template path                           *)

\* ctx.get_path("path_elevation", &inp) for the descriptor of the d
\* attribute "M 5,174 137,140" or "m 2,169 10,-31"
CallGetPath(pathd) ==
    /\ data # None
    /\ fn_call = NoFnCall
    /\ fn_call' = [fn |-> "get_path", k |-> "path_elevation",
                   inp |-> InputPath_new(pathd)]
    /\ fn_ret' = get_path("path_elevation", InputPath_new(pathd))
    /\ UNCHANGED fn_frame

PathNext ==
    \/ LoadNext
    \/ \E pathd \in {PathAbs, PathRel} : CallGetPath(pathd)

SpecPath == LoadSpecInit /\ [][PathNext]_vars

-----------------------------------------------------------------------------
(* The application window (bicit-ui/src/main.rs, the native build): the    *)
(* map render job and the preview.  jobs holds every worker thread that    *)
(* start_map_job has spawned, with the channel it sends its result on;     *)
(* the receiver of channel i lives in app.map_job while rx is i.           *)

\* the workers start_map_job is allowed to spawn in one behaviour
MaxJobs == 2

\* MapImageRequest: the pixel size and track color a template asks for
RequestA == [w_px |-> 1, h_px |-> 2, track_color |-> None]
RequestB == [w_px |-> 2, h_px |-> 2, track_color |-> Some("red")]

\* Template::desired_map_image_request of each of self.templates
\* (main.rs:625-628): two templates with a map image, one without
TemplateRequests == << Some(RequestA), Some(RequestB), None >>

\* the files the dialog can pick and what Context::load makes of them:
\* its coordinates, or an error
GpxFiles == {"a.gpx", "b.gpx", "empty.gpx", "bad.gpx"}

CoordsOf(path) ==
    CASE path = "a.gpx" -> Some(<<1, 2>>)
      [] path = "b.gpx" -> Some(<<3>>)
      [] path = "empty.gpx" -> Some(<<>>)
      [] OTHER -> None

\* what a worker computes: the map of its coordinates for its request, or
\* an error
Ok(v) == [ok |-> TRUE, value |-> v]
Err(e) == [ok |-> FALSE, value |-> e]
RenderResults(job) ==
    {Ok([coords |-> job.coords, request |-> job.request]), Err("render")}

\* jobs lists the workers that still exist: a thread that has ended is gone
\* once the application no longer holds the receiver of its channel.  The
\* application and the workers with such threads left out, the receiver
\* renumbered to match.
Reap(a, js) ==
    LET held(i) == a.map_job # None /\ Unwrap(a.map_job).rx = i
        keep == {i \in DOMAIN js : js[i].running \/ held(i)}
        place(i) == Cardinality({j \in keep : j <= i})
        kept == [k \in 1..Cardinality(keep) |->
                    js[CHOOSE i \in keep : place(i) = k]]
    IN  << IF a.map_job = None \/ Unwrap(a.map_job).rx \notin keep THEN a
           ELSE [a EXCEPT !.map_job[1].rx = place(@)],
           kept >>

\* load_gpx leaving the job in flight where it is
load_gpx_keeping_job(a, path) ==
    IF CoordsOf(path) = None
    THEN [a EXCEPT !.status_message = Some("Error")]
    ELSE [a EXCEPT !.gpx_path = Some(path),
                   !.gpx_context = Some([coords |-> Unwrap(CoordsOf(path))]),
                   !.preview_map = None,
                   !.preview_texture = None,
                   !.preview_dirty = TRUE,
                   !.status_message = Some("GPX loaded successfully")]

\* BicitApp::load_gpx (main.rs:269-307), called from the Open GPX button,
\* which reports its error (main.rs:866-873).  The handle of a job in
\* flight is dropped (line 300); its worker is not told.
load_gpx(a, path) ==
    IF CoordsOf(path) = None
    THEN [a EXCEPT !.status_message = Some("Error")]
    ELSE [a EXCEPT !.gpx_path = Some(path),
                   !.gpx_context = Some([coords |-> Unwrap(CoordsOf(path))]),
                   !.map_job = None,
                   !.preview_map = None,
                   !.preview_texture = None,
                   !.preview_dirty = TRUE,
                   !.status_message = Some("GPX loaded successfully")]

\* The model notes on every worker whether the track it was started for has
\* since been replaced (superseded); the program keeps no such note.
LoadGpx(path) ==
    LET noted == IF CoordsOf(path) = None THEN jobs
                 ELSE [i \in DOMAIN jobs |-> [jobs[i] EXCEPT !.superseded = TRUE]]
        after == Reap(load_gpx(app, path), noted)
    IN  /\ app' = after[1]
        /\ jobs' = after[2]
        /\ UNCHANGED exported

\* a click on a template label (main.rs:895-901)
SelectTemplate(i) ==
    /\ app' = [app EXCEPT !.selected_template_idx = i, !.preview_dirty = TRUE]
    /\ UNCHANGED <<jobs, exported>>

\* a worker thread of start_map_job (main.rs:449-458), newly spawned
Worker(request, coords) ==
    [request |-> request, coords |-> coords, running |-> TRUE, chan |-> <<>>,
     superseded |-> FALSE]

\* BicitApp::start_map_job (main.rs:402-462): the application and the
\* workers after the call
start_map_job(a, js, kind, request, coords) ==
    IF a.map_job # None THEN <<a, js>>
    ELSE << [a EXCEPT !.map_job = Some([kind |-> kind, request |-> request,
                                         rx |-> Len(js) + 1])],
            Append(js, Worker(request, coords)) >>

\* regenerate_preview taking any cached map for the one the template asks for
regenerate_preview_any_cached(a, js, outcome) ==
    LET request == TemplateRequests[a.selected_template_idx + 1]
        clean == [a EXCEPT !.preview_texture = None, !.preview_dirty = FALSE]
        cached == a.preview_map # None
        coords == Unwrap(a.gpx_context).coords
        href == IF request = None THEN None
                ELSE Some(Unwrap(a.preview_map)[2])
        composed == [template |-> a.selected_template_idx,
                     map_href |-> href, coords |-> coords]
    IN  IF a.gpx_context = None THEN <<clean, js>>
        ELSE IF request # None /\ ~cached
        THEN IF a.map_job # None THEN <<clean, js>>
             ELSE IF coords = <<>>
             THEN << [clean EXCEPT !.status_message =
                                      Some("No GPX coordinates")], js >>
             ELSE LET started == start_map_job(a, js, "Preview",
                                               Unwrap(request), coords)
                  IN  << [started[1] EXCEPT !.preview_texture = None,
                                            !.preview_dirty = FALSE],
                         started[2] >>
        ELSE IF outcome = "apply_err"
        THEN << [a EXCEPT !.status_message = Some("Preview error")], js >>
        ELSE IF outcome = "render_err"
        THEN << [a EXCEPT !.status_message = Some("SVG render error")], js >>
        ELSE << [a EXCEPT !.preview_texture = Some(composed),
                          !.preview_dirty = FALSE], js >>

\* BicitApp::regenerate_preview (main.rs:618-706).  outcome is what
\* apply_with and render_svg_to_color_image make of the template.
regenerate_preview(a, js, outcome) ==
    LET request == TemplateRequests[a.selected_template_idx + 1]
        clean == [a EXCEPT !.preview_texture = None, !.preview_dirty = FALSE]
        cached == a.preview_map # None
                    /\ Unwrap(a.preview_map)[1] = Unwrap(request)
        coords == Unwrap(a.gpx_context).coords
        href == IF request = None THEN None
                ELSE Some(Unwrap(a.preview_map)[2])
        composed == [template |-> a.selected_template_idx,
                     map_href |-> href, coords |-> coords]
    IN  IF a.gpx_context = None THEN <<clean, js>>
        ELSE IF request # None /\ ~cached
        THEN IF a.map_job # None THEN <<clean, js>>
             ELSE IF coords = <<>>
             THEN << [clean EXCEPT !.status_message =
                                      Some("No GPX coordinates")], js >>
             ELSE LET started == start_map_job(a, js, "Preview",
                                               Unwrap(request), coords)
                  IN  << [started[1] EXCEPT !.preview_texture = None,
                                            !.preview_dirty = FALSE],
                         started[2] >>
        ELSE IF outcome = "apply_err"
        THEN << [a EXCEPT !.status_message = Some("Preview error")], js >>
        ELSE IF outcome = "render_err"
        THEN << [a EXCEPT !.status_message = Some("SVG render error")], js >>
        ELSE << [a EXCEPT !.preview_texture = Some(composed),
                          !.preview_dirty = FALSE], js >>

\* show_preview calls regenerate_preview when the preview is dirty
\* (main.rs:815-817)
RegeneratePreview ==
    \E outcome \in {"ok", "apply_err", "render_err"} :
        LET after == regenerate_preview(app, jobs, outcome)
        IN  /\ app.preview_dirty
            /\ Len(after[2]) <= MaxJobs
            /\ app' = after[1]
            /\ jobs' = after[2]
            /\ UNCHANGED exported

\* rx.try_recv() on channel i (main.rs:473-479): a result, or nothing yet
\* (None), or an error when the sender is gone and nothing was sent
try_recv(js, i) ==
    IF js[i].chan # <<>> THEN Some(js[i].chan[1])
    ELSE IF js[i].running THEN None
    ELSE Some(Err("map render worker disconnected"))

\* poll_map_job caching the map without marking the preview dirty
poll_map_job_not_dirty(a, js) ==
    LET in_flight == Unwrap(a.map_job)
        completed == try_recv(js, in_flight.rx)
        res == Unwrap(completed)
        taken == [a EXCEPT !.map_job = None]
        received == [js EXCEPT ![in_flight.rx].chan = <<>>]
    IN  IF completed = None THEN <<a, js>>
        ELSE IF res.ok
        THEN << [taken EXCEPT !.preview_map =
                                  Some(<<in_flight.request, res.value>>)],
                received >>
        ELSE << [taken EXCEPT !.status_message = Some("Map render error")],
                received >>

\* BicitApp::poll_map_job (main.rs:464-508), with a job in flight
poll_map_job(a, js) ==
    LET in_flight == Unwrap(a.map_job)
        completed == try_recv(js, in_flight.rx)
        res == Unwrap(completed)
        taken == [a EXCEPT !.map_job = None]
        received == [js EXCEPT ![in_flight.rx].chan = <<>>]
    IN  IF completed = None THEN <<a, js>>
        ELSE IF res.ok
        THEN << [taken EXCEPT !.preview_map =
                                  Some(<<in_flight.request, res.value>>),
                              !.preview_dirty = TRUE], received >>
        ELSE << [taken EXCEPT !.status_message = Some("Map render error")],
                received >>

PollMapJob ==
    LET polled == poll_map_job(app, jobs)
        after == Reap(polled[1], polled[2])
    IN  /\ app.map_job # None
        /\ app' = after[1]
        /\ jobs' = after[2]
        /\ UNCHANGED exported

\* worker i finishes its render and sends the result (main.rs:450-457); the
\* result is lost when the receiver has been dropped
WorkerCompletes(i) ==
    /\ jobs[i].running
    /\ \E res \in RenderResults(jobs[i]) :
          LET ended == [jobs EXCEPT ![i].running = FALSE,
                                    ![i].chan =
                                        IF app.map_job # None
                                             /\ Unwrap(app.map_job).rx = i
                                        THEN <<res>> ELSE <<>>]
          IN  /\ app' = Reap(app, ended)[1]
              /\ jobs' = Reap(app, ended)[2]
    /\ UNCHANGED exported

\* worker i ends without sending: its render panicked
WorkerPanics(i) ==
    /\ jobs[i].running
    /\ LET ended == [jobs EXCEPT ![i].running = FALSE]
       IN  /\ app' = Reap(app, ended)[1]
           /\ jobs' = Reap(app, ended)[2]
    /\ UNCHANGED exported

\* BicitApp::export in the native build (main.rs:708-786): the application
\* and the file after an export whose dialog gave a path.  The map is
\* rendered on the spot from the loaded coordinates; rendered is what the
\* renderer returned, outcome what apply_with, render_svg_to_png_bytes and
\* fs::write made of it.
export(a, file, rendered, outcome) ==
    LET request == TemplateRequests[a.selected_template_idx + 1]
        coords == Unwrap(a.gpx_context).coords
        href == IF request = None THEN None ELSE Some(rendered.value)
        Says(msg) == << [a EXCEPT !.status_message = Some(msg)], file >>
    IN  IF a.gpx_path = None THEN Says("No GPX file loaded")
        ELSE IF a.gpx_context = None THEN Says("No GPX data available")
        ELSE IF request # None /\ ~rendered.ok THEN Says("Map render error")
        ELSE IF outcome = "apply_err" THEN Says("Template error")
        ELSE IF outcome = "render_err" THEN Says("SVG render error")
        ELSE IF outcome = "write_err" THEN Says("Failed to write PNG")
        ELSE << [a EXCEPT !.status_message = Some("Exported")],
                Some([template |-> a.selected_template_idx, map_href |-> href,
                      coords |-> coords]) >>

\* what render_track_map_href_with_wgpu returns for the request of the
\* selected template, called from export
ExportRenders(a) ==
    LET request == TemplateRequests[a.selected_template_idx + 1]
    IN  IF a.gpx_context = None \/ request = None THEN {Err("render")}
        ELSE IF Unwrap(a.gpx_context).coords = <<>> THEN {Err("render")}
        ELSE {Ok([coords |-> Unwrap(a.gpx_context).coords,
                  request |-> Unwrap(request)]), Err("render")}

\* a click on Export
Export ==
    \E rendered \in ExportRenders(app),
       outcome \in {"ok", "apply_err", "render_err", "write_err"} :
        /\ app' = export(app, exported, rendered, outcome)[1]
        /\ exported' = export(app, exported, rendered, outcome)[2]
        /\ UNCHANGED jobs

ui_frame == <<ctx_vars, gpx, xml_vars, filename, fn_vars>>

UiNext ==
    \/ \E path \in GpxFiles : LoadGpx(path) /\ UNCHANGED ui_frame
    \/ \E i \in 0..(Len(TemplateRequests) - 1) :
          SelectTemplate(i) /\ UNCHANGED ui_frame
    \/ RegeneratePreview /\ UNCHANGED ui_frame
    \/ PollMapJob /\ UNCHANGED ui_frame
    \/ \E i \in DOMAIN jobs : WorkerCompletes(i) /\ UNCHANGED ui_frame
    \/ \E i \in DOMAIN jobs : WorkerPanics(i) /\ UNCHANGED ui_frame

SpecUi == LoadSpecInit /\ [][UiNext]_vars

\* a worker ends: it sends its result or panics
WorkerEnds == \E i \in DOMAIN jobs : WorkerCompletes(i) \/ WorkerPanics(i)

\* The application with its frames going on: show_preview polls the job on
\* every frame (main.rs:812-813, 945), and a worker thread that runs comes
\* to its end
SpecUiLive ==
    /\ SpecUi
    /\ WF_vars(PollMapJob /\ UNCHANGED ui_frame)
    /\ WF_vars(WorkerEnds /\ UNCHANGED ui_frame)

\* the same with exports
UiExportNext ==
    \/ UiNext
    \/ Export /\ UNCHANGED ui_frame

SpecUiExport == LoadSpecInit /\ [][UiExportNext]_vars

-----------------------------------------------------------------------------
(* Claims about the memoized map asset (SpecCtx)                           *)

\* C1: a get_image call that returns an asset returns one that was rendered
\* for exactly the pixel width, pixel height and track color it asked for.
C1_AssetMatchesRequest ==
    (last.op = "get_image" /\ last.ret # None) =>
        /\ last.k = "image_map"
        /\ Unwrap(last.ret).w = last.w
        /\ Unwrap(last.ret).h = last.h
        /\ Unwrap(last.ret).color = last.color

\* a get_image call returned an asset that replaced an earlier one
C1_Witness ==
    /\ last.op = "get_image"
    /\ last.ret # None
    /\ last.render = "ok"
    /\ Unwrap(last.ret).n >= 2

\* C2: get_image renders exactly when the Context is loaded and no asset is
\* cached or the cached entry's width, height or color differs from the
\* request; a call renders at most once; the second of two consecutive
\* successful calls with the same triple renders nothing and returns the
\* same asset (so the two perform one render when the first one missed);
\* a successful render replaces the cached entry by the new asset.
C2_CallRenders ==
    LET w == last'.w
        h == last'.h
        c == last'.color
        miss == \/ map_href = None
                \/ map_size # Some(<<w, h>>)
                \/ map_track_color # c
    IN  last'.op = "get_image" =>
            /\ (last'.render # "none") <=> (data # None /\ miss)
            /\ renders' = IF last'.render = "ok" THEN renders + 1 ELSE renders
            /\ ( /\ last.op = "get_image" /\ last.ret # None /\ last'.ret # None
                 /\ last.w = w /\ last.h = h /\ last.color = c )
               => (last'.render = "none" /\ last'.ret = last.ret)
            /\ last'.render = "ok" =>
                  /\ map_href' = Some([w |-> w, h |-> h, color |-> c, n |-> renders'])
                  /\ map_size' = Some(<<w, h>>)
                  /\ map_track_color' = c
                  /\ map_href' # map_href

C2_RendersOnlyOnMiss == [][C2_CallRenders]_vars

\* a get_image call returned the cached asset without rendering
C2_Witness ==
    /\ last.op = "get_image"
    /\ last.ret # None
    /\ last.render = "none"
    /\ renders >= 2

-----------------------------------------------------------------------------
(* Claims about the track analyzer (SpecLoad)                              *)

\* every point of the file carries an elevation
AllElevationsSet(g) ==
    \A i \in 1..Len(AllPoints(g)) : IsSome(AllPoints(g)[i].elevation)

\* C9: for every input track the statistics stored by Context.load satisfy
\* moving_time <= total_time.
C9_MovingTimeAtMostTotal ==
    data # None => Unwrap(data).time_moving <= Unwrap(data).time

\* a file was loaded in which one pair counts as moving and another, with a
\* positive elapsed time, does not
C9_Witness ==
    /\ data # None
    /\ Unwrap(data).time_moving > 0
    /\ Unwrap(data).time_moving < Unwrap(data).time

\* C10: every sample of the elevation profile stored by Context.load lies
\* between elevation_min and elevation_max, and elevation_min <=
\* elevation_max whenever the profile has a sample (for every file, and so
\* for those with an elevation on every point).
C10_SamplesWithinMinMax ==
    data # None =>
        LET d == Unwrap(data)
        IN  /\ \A i \in 1..Len(d.elevation) :
                  /\ d.elevation_min <= d.elevation[i].e
                  /\ d.elevation[i].e <= d.elevation_max
            /\ Len(d.elevation) > 0 => d.elevation_min <= d.elevation_max

\* a file with an elevation on every point was loaded whose profile holds a
\* negative sample and a sample above 99999
C10_Witness ==
    /\ data # None
    /\ AllPoints(gpx) # <<>>
    /\ AllElevationsSet(gpx)
    /\ \E i, j \in 1..Len(Unwrap(data).elevation) :
          /\ Unwrap(data).elevation[i].e < 0
          /\ Unwrap(data).elevation[j].e > ElevationMinInit

-----------------------------------------------------------------------------
(* Claims about the template pass (SpecXml)                                *)

IsTspanStart(e) == e.type = "Start" /\ e.name = "tspan"
IsText(e) == e.type = "Text"
TextOf(t) == Ev("Text", "", <<>>, t)

\* the string value the id of an element resolves to, if any
StringValue(e) ==
    IF get_attribute(e, "id") = None THEN None
    ELSE get_string(Unwrap(get_attribute(e, "id")))

\* reader[i] is the first text event after reader[j]
FirstTextAfter(j, i) ==
    /\ j < i
    /\ IsText(reader[i])
    /\ \A k \in (j + 1)..(i - 1) : ~IsText(reader[k])

\* C3 as stated: when a tspan whose id resolves to a string value is opened,
\* the first text event that follows is written as that string.
C3_FirstFollowingTextReplaced ==
    \A j \in 1..Len(reader), i \in 1..Len(writer) :
        (IsTspanStart(reader[j]) /\ StringValue(reader[j]) # None
             /\ FirstTextAfter(j, i))
        => writer[i] = TextOf(Unwrap(StringValue(reader[j])))

\* C3 as amended: when a tspan whose id resolves to a string value is opened,
\* the first text event that follows is written as that string provided no
\* other tspan is opened before it; a text event that follows another text
\* event with no tspan opened in between is written as it is (one text event
\* per opening); and the events that are not text keep their place and kind,
\* with nothing written for a replacement that no text event took.
C3_NextTextReplaced ==
    /\ \A j \in 1..Len(reader), i \in 1..Len(writer) :
          /\ (IsTspanStart(reader[j]) /\ StringValue(reader[j]) # None
                  /\ FirstTextAfter(j, i)
                  /\ \A k \in (j + 1)..(i - 1) : ~IsTspanStart(reader[k]))
             => writer[i] = TextOf(Unwrap(StringValue(reader[j])))
          /\ (IsText(reader[j]) /\ FirstTextAfter(j, i)
                  /\ \A k \in (j + 1)..(i - 1) : ~IsTspanStart(reader[k]))
             => writer[i] = reader[i]
    /\ \A i \in 1..Len(writer) :
          /\ writer[i].type = reader[i].type
          /\ writer[i].name = reader[i].name
    /\ status = "done" => /\ result = Some(writer)
                          /\ Len(writer) = Len(reader)

\* a resolved tspan, its text replaced, a second text written as it is
C3_Witness ==
    /\ status = "done"
    /\ Len(reader) = 3
    /\ IsTspanStart(reader[1]) /\ StringValue(reader[1]) = Some("0km")
    /\ IsText(reader[2]) /\ IsText(reader[3])
    /\ Unwrap(result)[2] = TextOf("0km")
    /\ Unwrap(result)[2] # reader[2]
    /\ Unwrap(result)[3] = reader[3]

\* the elements open after the events, innermost last
RECURSIVE OpenElements(_)
OpenElements(events) ==
    IF events = <<>> THEN <<>>
    ELSE LET e == events[Len(events)]
             before == OpenElements(SubSeq(events, 1, Len(events) - 1))
         IN  CASE e.type = "Start" -> Append(before, e)
               [] e.type = "End" -> SubSeq(before, 1, Len(before) - 1)
               [] OTHER -> before

\* reader[i] is within a tspan whose id resolved to a string value
InResolvedTspan(i) ==
    LET open == OpenElements(SubSeq(reader, 1, i - 1))
    IN  \E k \in 1..Len(open) :
            IsTspanStart(open[k]) /\ StringValue(open[k]) # None

\* C4: every text event that is not the content of a tspan whose id resolved
\* to a string value is copied to the output unchanged.
C4_OtherTextUnchanged ==
    \A i \in 1..Len(writer) :
        (IsText(reader[i]) /\ ~InResolvedTspan(i)) => writer[i] = reader[i]

\* the ids get_string, get_path or get_image can yield a value for
RecognizedIds ==
    { "value_track_name", "value_distance", "value_speed", "value_speed_max",
      "value_speed_moving", "value_uphill", "value_downhill",
      "value_elevation_max", "value_elevation_min", "value_time",
      "value_moving_time", "path_elevation", "image_map" }

NoRecognizedId(events) ==
    \A i \in 1..Len(events) :
        \/ get_attribute(events[i], "id") = None
        \/ Unwrap(get_attribute(events[i], "id")) \notin RecognizedIds

\* C5: the pass over a well-formed document (every element closed, no parse
\* error) in which no element carries a recognized id returns the events of
\* the input; a second application then has the input of the first.
C5_UnrecognizedPassThrough ==
    (status \in {"done", "panicked"} /\ open_elems = <<>>
         /\ NoRecognizedId(reader))
    => (status = "done" /\ result = Some(reader))

\* a d attribute in the shape InputPath expects: a separate m or M, then two
\* pairs of numbers
ExpectedShape(d) ==
    /\ Len(d) >= 3
    /\ d[1] \in {<<"m">>, <<"M">>}
    /\ \A i \in {2, 3} : /\ Len(d[i]) = 2
                         /\ \A k \in {1, 2} : d[i][k] \in DOMAIN Numerals

\* a tspan or path element with no matching data, or with a required
\* attribute missing or not in the expected shape
Unresolvable(e) ==
    LET id == get_attribute(e, "id")
        pathd == get_attribute(e, "d")
    IN  \/ IsTspanStart(e) /\ StringValue(e) = None
        \/ /\ e.type = "Empty" /\ e.name = "path"
           /\ \/ id = None
              \/ Unwrap(id) # "path_elevation"
              \/ data = None
              \/ pathd = None
              \/ ~ExpectedShape(Unwrap(pathd))

\* C6: an element with no matching data, or whose required attributes are
\* missing or misshaped, is left as-is in the output, and handling it never
\* panics.
C6_UnresolvedLeftAsIs ==
    \A i \in 1..Len(reader) :
        Unresolvable(reader[i])
        => (status # "panicked" /\ i <= Len(writer) /\ writer[i] = reader[i])

IsImage(e) == e.type = "Empty" /\ e.name = "image"

\* the width or height of an image element is missing or not a number
BadSize(e) ==
    \E k \in {"width", "height"} :
        \/ get_attribute(e, k) = None
        \/ Unwrap(get_attribute(e, k))[1] \notin DOMAIN Numerals
        \/ Unwrap(get_attribute(e, k))[2] # ""

\* C7: an image element that cannot be resolved (its width or height is
\* missing or not a number, or get_image returns nothing for its id) is
\* written with all its source attributes unchanged, and the pass goes on.
C7_ImageStep ==
    \A e \in ImageEvents :
        (reader' = Append(reader, e)
             /\ (BadSize(e) \/ (last'.tick # last.tick /\ last'.ret = None)))
        => (writer' = Append(writer, e) /\ status' = "running")

C7_UnresolvedImageUnchanged == [][C7_ImageStep]_vars

\* an image with no width, then one get_image gave nothing for, both written
\* as they are, and the pass went on to its end
C7_Witness ==
    /\ status = "done"
    /\ Len(reader) = 3
    /\ IsImage(reader[1]) /\ BadSize(reader[1])
    /\ get_attribute(reader[1], "xlink:href") = Some(SourceHref)
    /\ IsImage(reader[2]) /\ ~BadSize(reader[2])
    /\ last.op = "get_image" /\ last.ret = None
    /\ Unwrap(result)[1] = reader[1]
    /\ Unwrap(result)[2] = reader[2]

\* C8: when the reader yields a parse error the pass fails and returns no
\* document: a document is returned only by a pass that reached the end of
\* the template.
C8_NoResultOnParseError ==
    /\ status = "parse_error" => result = None
    /\ result # None => status = "done"

\* a parse error after events were written
C8_Witness ==
    /\ status = "parse_error"
    /\ Len(writer) = MaxEvents
    /\ result = None

-----------------------------------------------------------------------------
(* The statistics of particular files (SpecLoad)                           *)

Zero == [num |-> 0, den |-> 1]

\* C11: loading a track with zero points succeeds and yields statistics in
\* which every numeric field is zero, with an empty elevation profile and an
\* empty coordinate list.
C11_ZeroPointsAllZero ==
    (data # None /\ AllPoints(gpx) = <<>>) =>
        LET d == Unwrap(data)
        IN  /\ d.distance = 0
            /\ d.speed = Zero /\ d.speed_max = Zero /\ d.speed_moving = Zero
            /\ d.time = 0 /\ d.time_moving = 0
            /\ d.uphill = 0 /\ d.downhill = 0
            /\ d.elevation_min = 0 /\ d.elevation_max = 0
            /\ d.elevation = <<>>
            /\ d.coords = <<>>

-----------------------------------------------------------------------------
(* Claims about the track name (SpecFn, SpecName)                          *)

\* C12: truncate_ellipsis(s, max) returns s unchanged when s has at most
\* max >= 1 characters; when s has more it returns exactly max characters,
\* the first max - 1 of s and then the ellipsis marker; for max = 0 it
\* returns the empty string.
C12_TruncateEllipsis ==
    fn_call.fn = "truncate_ellipsis" =>
        LET s == fn_call.s
            max == fn_call.max_chars
        IN  /\ max = 0 => fn_ret = <<>>
            /\ (max >= 1 /\ Len(s) <= max) => fn_ret = s
            /\ (max >= 1 /\ Len(s) > max) =>
                  /\ Len(fn_ret) = max
                  /\ \A i \in 1..(max - 1) : fn_ret[i] = s[i]
                  /\ fn_ret[max] = Ellipsis

\* the 36 characters of the test, cut to the 32 of the track name
C12_Witness ==
    /\ fn_call.fn = "truncate_ellipsis"
    /\ fn_call.s = LongName
    /\ fn_call.max_chars = TrackNameMax
    /\ Len(fn_ret) = TrackNameMax
    /\ fn_ret[TrackNameMax] = Ellipsis

\* the tracks of g whose name is not empty after trimming
Usable(g) == {i \in 1..Len(g) : g[i].name # None /\ trim(Unwrap(g[i].name)) # <<>>}

\* C13: the track name is the first track-level name, in document order,
\* that is non-empty after trimming, truncated to 32 characters; a track whose
\* name is empty or blank is skipped in favour of a later track with a usable
\* name, and the fallback is used only when no track has a usable name.
C13_FirstUsableName ==
    data # None =>
        LET first == CHOOSE i \in Usable(gpx) : \A j \in Usable(gpx) : i <= j
            name == trim(Unwrap(gpx[first].name))
        IN  IF Usable(gpx) # {}
            THEN /\ Len(name) <= TrackNameMax
                    => Unwrap(data).track_name = name
                 /\ Len(name) > TrackNameMax
                    => /\ Len(Unwrap(data).track_name) = TrackNameMax
                       /\ \A i \in 1..(TrackNameMax - 1) :
                             Unwrap(data).track_name[i] = name[i]
                       /\ Unwrap(data).track_name[TrackNameMax] = Ellipsis
            ELSE \/ Unwrap(data).track_name = DefaultName
                 \/ /\ file_name(filename) # None
                    /\ \E n \in 1..Len(Unwrap(file_name(filename))) :
                          Unwrap(data).track_name
                              = SubSeq(Unwrap(file_name(filename)), 1, n)

\* C14: when no track carries a name the track name is the stem of the
\* file's name (the name up to its last '.', which is not its first
\* character), and "track" when the path has no file name; it is never
\* empty.
C14_FallbackToStem ==
    (data # None /\ \A i \in 1..Len(gpx) : gpx[i].name = None) =>
        LET r == Unwrap(data).track_name
            name == Unwrap(file_name(filename))
            dots == {i \in 2..Len(name) : name[i] = "."}
        IN  /\ r # <<>>
            /\ file_name(filename) = None => r = DefaultName
            /\ file_name(filename) # None =>
                  /\ dots = {} => r = name
                  /\ dots # {} =>
                        /\ Len(r) < Len(name)
                        /\ r = SubSeq(name, 1, Len(r))
                        /\ name[Len(r) + 1] = "."
                        /\ \A i \in dots : i <= Len(r) + 1

\* a file of tracks without names was loaded from a path whose file name has
\* an extension
C14_Witness ==
    /\ data # None
    /\ gpx # <<>>
    /\ \A i \in 1..Len(gpx) : gpx[i].name = None
    /\ filename = <<"a", ".", "a">>
    /\ Unwrap(data).track_name = <<"a">>

-----------------------------------------------------------------------------
(* Claims about the functions of the template (SpecFn)                     *)

\* p is n / d (d > 0) rounded half away from zero, and at least 1
IsRoundedFloor1(p, n, d) ==
    IF 2 * n < 3 * d THEN p = 1
    ELSE 2 * n - d < 2 * d * p /\ 2 * d * p <= 2 * n + d

\* C15: image_pixels maps an image of (w_units, h_units) in a document of
\* pixel size (W, H) and viewBox size (vw, vh) to
\* (max(1, round(w_units * W / vw)), max(1, round(h_units * H / vh))); both
\* are at least 1, and W = H = 1080, vw = vh = 285.75, w_units = 158.75,
\* h_units = 190.5 give (600, 720).
C15_ImagePixels ==
    fn_call.fn = "image_pixels" =>
        LET m == fn_call.metrics
            w == fn_call.image_w_units
            h == fn_call.image_h_units
        IN  /\ fn_ret[1] >= 1 /\ fn_ret[2] >= 1
            /\ IsRoundedFloor1(fn_ret[1],
                               w.num * m.svg_px_w.num * m.viewbox_w.den,
                               w.den * m.svg_px_w.den * m.viewbox_w.num)
            /\ IsRoundedFloor1(fn_ret[2],
                               h.num * m.svg_px_h.num * m.viewbox_h.den,
                               h.den * m.svg_px_h.den * m.viewbox_h.num)
            /\ (m = [svg_px_w |-> Frac(1080, 1), svg_px_h |-> Frac(1080, 1),
                     viewbox_w |-> Frac(1143, 4), viewbox_h |-> Frac(1143, 4)]
                  /\ w = Frac(635, 4) /\ h = Frac(381, 2))
               => fn_ret = <<600, 720>>

\* the image of dev.svg
C15_Witness ==
    /\ fn_call.fn = "image_pixels"
    /\ fn_call.metrics.svg_px_w = Frac(1080, 1)
    /\ fn_call.metrics.viewbox_h = Frac(1143, 4)
    /\ fn_call.image_w_units = Frac(635, 4)
    /\ fn_call.image_h_units = Frac(381, 2)
    /\ fn_ret[2] = 720

\* the declarations of a style, each the pair of its trimmed name and value
DeclarationsOf(style) ==
    LET parts == Without(Split(style, ";"), {<<>>})
        colon(d) == find(d, <<":">>)
    IN  [i \in 1..Len(parts) |->
            IF colon(parts[i]) = None THEN <<trim(parts[i]), <<>>>>
            ELSE << trim(SubSeq(parts[i], 1, Unwrap(colon(parts[i])) - 1)),
                    trim(SubSeq(parts[i], Unwrap(colon(parts[i])) + 1,
                                Len(parts[i]))) >>]

\* the values of the stroke declarations of a style
StrokeValues(style) ==
    LET ds == DeclarationsOf(style)
    IN  { ds[i][2] : i \in {k \in 1..Len(ds) : ds[k][1] = <<"s", "t", "r", "o", "k", "e">>} }

\* C16: for a style whose stroke declaration has a value starting with '#'
\* and 6 or 8 hex digits, extract_hex_stroke_from_style returns '#' and
\* those digits, ignoring what follows them; it returns nothing when no
\* stroke declaration has '#' and at least 6 hex digits.  (A run of 7 or of
\* more than 8 digits is left open here.)
C16_HexStrokeOfStyle ==
    fn_call.fn = "extract_hex_stroke_from_style" =>
        LET values == StrokeValues(fn_call.style)
            hashed == {v \in values : v # <<>> /\ Head(v) = "#"
                                      /\ HexLen(Tail(v)) >= 6}
        IN  /\ hashed = {} => fn_ret = None
            /\ \A v \in hashed :
                  (Cardinality(values) = 1 /\ HexLen(Tail(v)) \in {6, 8})
                  => fn_ret = Some(<<"#">> \o SubSeq(Tail(v), 1, HexLen(Tail(v))))

\* the numeral of the number v, if the templates here have one
HasNumeral(v) == \E str \in DOMAIN Numerals : Numerals[str] = v
NumeralOf(v) == CHOOSE str \in DOMAIN Numerals : Numerals[str] = v

\* C18: InputPath::new keeps the prefix and the start-point token verbatim
\* and gives (length, height) as the second pair for the relative prefix m,
\* and as the second pair minus the start point for the absolute prefix M;
\* the relative descriptor of the same geometry gives the same length and
\* height.
C18_InputPathNew ==
    (fn_call.fn = "InputPath_new" /\ ExpectedShape(fn_call.path)) =>
        LET path == fn_call.path
            x1 == Numerals[path[2][1]]
            y1 == Numerals[path[2][2]]
            x2 == Numerals[path[3][1]]
            y2 == Numerals[path[3][2]]
            relative == << <<"m">>, path[2],
                           <<NumeralOf(x2 - x1), NumeralOf(y2 - y1)>> >>
        IN  /\ ~fn_ret.panic
            /\ fn_ret.prefix = path[1][1]
            /\ fn_ret.ss = path[2]
            /\ path[1] = <<"m">> => fn_ret.length = x2 /\ fn_ret.height = y2
            /\ path[1] = <<"M">> =>
                  /\ fn_ret.length = x2 - x1 /\ fn_ret.height = y2 - y1
                  /\ (HasNumeral(x2 - x1) /\ HasNumeral(y2 - y1)) =>
                        /\ InputPath_new(relative).length = fn_ret.length
                        /\ InputPath_new(relative).height = fn_ret.height

\* "M 5,174 137,140": 132 long and -34 high, as "m 5,174 132,-34" is
C18_Witness ==
    /\ fn_call.fn = "InputPath_new"
    /\ fn_call.path = PathAbs
    /\ fn_ret.length = 132
    /\ fn_ret.height = -34
    /\ fn_ret.ss = <<"5", "174">>

-----------------------------------------------------------------------------
(* Claims about the decimation (SpecLoad)                                  *)

\* the pairs (point 10*i, point 10*(i+1)) of a segment of n points, for
\* every i >= 0 with 10*(i+1) <= n-1, in order; points are counted from 0
\* and sequences from 1
IndexedPairs(points) ==
    LET n == Len(points)
        count == IF n = 0 THEN 0 ELSE (n - 1) \div 10
    IN  [k \in 1..count |-> <<points[10 * (k - 1) + 1], points[10 * k + 1]>>]

\* a segment without the points after its last index that is a multiple of 10
WithoutTrailing(points) ==
    IF points = <<>> THEN <<>>
    ELSE SubSeq(points, 1, 10 * ((Len(points) - 1) \div 10) + 1)

\* the statistics of time, speed and elevation among the loaded data
Statistics(d) ==
    [ time |-> d.time, time_moving |-> d.time_moving,
      speed_max |-> d.speed_max, uphill |-> d.uphill, downhill |-> d.downhill,
      elevation_max |-> d.elevation_max, elevation_min |-> d.elevation_min,
      samples |-> [i \in 1..Len(d.elevation) |-> d.elevation[i].e] ]

\* C20: within a segment the decimated pairs are exactly (point 10*i,
\* point 10*(i+1)) for every i >= 0 with 10*(i+1) <= n-1, in order; no pair
\* joins two segments; the points after the last multiple of 10 contribute
\* to no time, speed or elevation statistic, only to the total distance and
\* the coordinate list.
C20_DecimatedPairs ==
    data # None =>
        LET d == Unwrap(data)
            segs == AllSegments(gpx)
            pairs == Flatten([i \in 1..Len(segs) |-> IndexedPairs(segs[i])])
            folded == FoldPairs(LoadInit, pairs)
            cut == [t \in 1..Len(gpx) |->
                      [gpx[t] EXCEPT !.segments =
                          [i \in 1..Len(@) |-> WithoutTrailing(@[i])]]]
        IN  /\ \A i \in 1..Len(segs) :
                  DecimatedPairs(segs[i]) = IndexedPairs(segs[i])
            /\ d.time = folded.tot_time
            /\ d.time_moving = folded.tot_moving_time
            /\ d.speed_max = folded.speed_max
            /\ d.uphill = folded.uphill
            /\ d.downhill = folded.downhill
            /\ d.elevation = folded.elev
            /\ d.elevation_max = folded.elevation_max
            /\ d.elevation_min = folded.elevation_min
            /\ Statistics(d) = Statistics(LoadData(cut))
            /\ d.coords = [i \in 1..Len(AllPoints(gpx)) |-> AllPoints(gpx)[i].x]
            /\ d.distance = TrackLength(segs)

\* a loaded file with a segment of 20 points (one pair, then 9 trailing
\* points that move the total distance) followed by another segment with a
\* point, and time counted
C20_Witness ==
    /\ data # None
    /\ \E i \in 1..Len(AllSegments(gpx)) :
          /\ Len(AllSegments(gpx)[i]) = 20
          /\ i < Len(AllSegments(gpx))
          /\ AllSegments(gpx)[i + 1] # <<>>
    /\ Unwrap(data).time > 0
    /\ Unwrap(data).elevation # <<>>
    /\ Unwrap(data).distance > Unwrap(data).elevation[1].d

-----------------------------------------------------------------------------
(* Claims about the statistics of the pairs (SpecLoad)                     *)

\* the decimated pairs of the file, segment by segment
AllPairs(g) ==
    Flatten([i \in 1..Len(AllSegments(g)) |-> IndexedPairs(AllSegments(g)[i])])

\* the sum of f over the elements of a sequence
RECURSIVE SumOver(_, _)
SumOver(f(_), pairs) ==
    IF pairs = <<>> THEN 0 ELSE f(Head(pairs)) + SumOver(f, Tail(pairs))

\* both timestamps present and t2 - t1 > 0
Timed(pair) ==
    /\ IsSome(pair[1].time) /\ IsSome(pair[2].time)
    /\ Unwrap(pair[2].time) - Unwrap(pair[1].time) > 0
Elapsed(pair) == Unwrap(pair[2].time) - Unwrap(pair[1].time)
\* distance / elapsed * 3.6 > 0.5, in whole metres and seconds
FasterThanHalf(pair) == Distance(pair[1], pair[2]) * 36 * 2 > 10 * Elapsed(pair)
TotalShare(pair) == IF Timed(pair) THEN Elapsed(pair) ELSE 0
MovingShare(pair) ==
    IF Timed(pair) /\ FasterThanHalf(pair) THEN Elapsed(pair) ELSE 0

\* C21: a decimated pair with a timestamp missing or with elapsed seconds
\* <= 0 adds nothing to total_time, moving_time or speed_max; any other pair
\* adds its elapsed seconds to total_time, and to moving_time if and only if
\* its speed round(distance)/elapsed*3.6 is greater than 0.5 km/h.
C21_TimeAndMoving ==
    data # None =>
        LET d == Unwrap(data)
            pairs == AllPairs(gpx)
            timed == {i \in 1..Len(pairs) : Timed(pairs[i])}
            Speed(i) == [num |-> Distance(pairs[i][1], pairs[i][2]) * 36,
                         den |-> Elapsed(pairs[i]) * 10]
        IN  /\ d.time = SumOver(TotalShare, pairs)
            /\ d.time_moving = SumOver(MovingShare, pairs)
            /\ \A i \in timed : ~FracGt(Speed(i), d.speed_max)
            /\ \/ d.speed_max = [num |-> 0, den |-> 1]
               \/ \E i \in timed :
                     Speed(i).num * d.speed_max.den = d.speed_max.num * Speed(i).den

\* a loaded file with a pair that covers ground but is not timed (a
\* timestamp missing, or time going backwards) and a timed pair faster than
\* 0.5 km/h, whose elapsed seconds are the total and the moving time
C21_Witness ==
    /\ data # None
    /\ \E i, j \in 1..Len(AllPairs(gpx)) :
          /\ ~Timed(AllPairs(gpx)[i])
          /\ Distance(AllPairs(gpx)[i][1], AllPairs(gpx)[i][2]) > 0
          /\ Timed(AllPairs(gpx)[j]) /\ FasterThanHalf(AllPairs(gpx)[j])
          /\ Unwrap(data).time = Elapsed(AllPairs(gpx)[j])
          /\ Unwrap(data).time_moving = Elapsed(AllPairs(gpx)[j])

\* the elements of a sequence that satisfy Test, in order
RECURSIVE SelectPairs(_, _)
SelectPairs(Test(_), pairs) ==
    IF pairs = <<>> THEN <<>>
    ELSE (IF Test(Head(pairs)) THEN <<Head(pairs)>> ELSE <<>>)
            \o SelectPairs(Test, Tail(pairs))

EarlierHasElevation(pair) == IsSome(pair[1].elevation)
BothHaveElevation(pair) ==
    IsSome(pair[1].elevation) /\ IsSome(pair[2].elevation)

\* C22: the elevation profile holds, in order, exactly one sample per
\* decimated pair whose earlier point carries an elevation, whether or not
\* the later point carries one.
C22_SamplePerEarlierElevation ==
    data # None =>
        LET sampled == SelectPairs(EarlierHasElevation, AllPairs(gpx))
        IN  /\ Len(Unwrap(data).elevation) = Len(sampled)
            /\ \A i \in 1..Len(sampled) :
                  Unwrap(data).elevation[i].e = Unwrap(sampled[i][1].elevation)

Delta(pair) == Unwrap(pair[2].elevation) - Unwrap(pair[1].elevation)

\* C23: over the decimated pairs whose two points both carry an elevation,
\* positive deltas e2 - e1 go to uphill and negative ones, negated, to
\* downhill: uphill >= 0, downhill >= 0, and uphill - downhill is the sum of
\* e2 - e1 over those pairs; for a single segment with an elevation on every
\* point that is the elevation of the last decimated point minus that of the
\* first.
C23_UphillDownhill ==
    data # None =>
        LET d == Unwrap(data)
            both == SelectPairs(BothHaveElevation, AllPairs(gpx))
            segs == AllSegments(gpx)
            dec == step_by(segs[1], 10)
        IN  /\ d.uphill >= 0
            /\ d.downhill >= 0
            /\ d.uphill - d.downhill = SumOver(Delta, both)
            /\ (Len(segs) = 1 /\ segs[1] # <<>> /\ AllElevationsSet(gpx)) =>
                  d.uphill - d.downhill =
                      Unwrap(dec[Len(dec)].elevation) - Unwrap(dec[1].elevation)

\* one segment with an elevation on every point that climbs and descends
C23_Witness ==
    /\ data # None
    /\ Len(AllSegments(gpx)) = 1
    /\ AllElevationsSet(gpx)
    /\ Unwrap(data).uphill > 0
    /\ Unwrap(data).downhill > 0

-----------------------------------------------------------------------------
(* Claims about the metrics and the rewritten elements (SpecXml)           *)

\* the positions of the svg start tags read so far
SvgStarts == {i \in 1..Len(reader) : reader[i].type = "Start" /\ reader[i].name = "svg"}
\* the root svg element: the first of them
RootSvg == reader[CHOOSE i \in SvgStarts : \A j \in SvgStarts : i <= j]

\* width 1000 px, height max(1, round(1000 * h_units / w_units))
FallbackRule(w_units, h_units) ==
    <<1000, Max(1, RoundDiv(1000 * h_units, w_units))>>

\* C24: during one pass the SvgMetrics come from the root svg element only
\* and are never changed by a later svg element; when the root's width or
\* height is missing or unparsable they stay unset for the whole pass and
\* every image placeholder is sized by the fallback rule.
C24_MetricsFromRootOnly ==
    status = "running" =>
        /\ svg_metrics = IF SvgStarts = {} THEN None ELSE RootMetrics(RootSvg)
        /\ (/\ reader # <<>>
            /\ reader[Len(reader)].name = "image"
            /\ handle_xml(reader[Len(reader)], None, None, TRUE).call.called
            /\ (SvgStarts = {} \/ RootMetrics(RootSvg) = None)) =>
                LET e == reader[Len(reader)]
                    w_units == Unwrap(parse_f64(Unwrap(get_attribute(e, "width"))[1]))
                    h_units == Unwrap(parse_f64(Unwrap(get_attribute(e, "height"))[1]))
                IN  <<last.w, last.h>> = FallbackRule(w_units, h_units)

\* the element just written
Written == writer'[Len(writer')]

\* the step reads the image e and get_image returns an asset for it
ImageResolved(e) ==
    /\ reader' = Append(reader, e)
    /\ last'.tick # last.tick
    /\ last'.ret # None

\* the step reads the path e and get_path returns a path for it
PathResolved(e) ==
    /\ reader' = Append(reader, e)
    /\ status' = "running"
    /\ handle_xml(e, svg_metrics, tpl_track_color, TRUE).ret # None

\* o is e with every attribute but those named keys kept, in order, and
\* with the one attribute key holding v
KeepsAllBut(o, e, keys, key, v) ==
    /\ o.type = e.type /\ o.name = e.name
    /\ WithoutKeys(o.attrs, keys) = WithoutKeys(e.attrs, keys)
    /\ Cardinality({i \in 1..Len(o.attrs) : o.attrs[i][1] = key}) = 1
    /\ get_attribute(o, key) = Some(v)

\* C25: a resolved image placeholder is written with every source attribute,
\* value and relative order kept, except the image reference attribute, which
\* holds the returned asset reference; a resolved path placeholder likewise
\* keeps every source attribute except d, which holds the synthesized path.
C25_Step ==
    /\ \A e \in ImageEvents :
          ImageResolved(e) =>
              /\ Len(writer') = Len(writer) + 1
              /\ KeepsAllBut(Written, e, {"xlink:href"}, "xlink:href",
                             Unwrap(last'.ret))
    /\ \A e \in PathEvents :
          PathResolved(e) =>
              /\ Len(writer') = Len(writer) + 1
              /\ KeepsAllBut(Written, e, {"d"}, "d",
                     Unwrap(handle_xml(e, svg_metrics, tpl_track_color, TRUE).ret))

C25_KeepsAttributes == [][C25_Step]_vars

\* C25, amended: a resolved image placeholder keeps every source attribute
\* other than xlink:href and sodipodi:absref, in order, followed by
\* xlink:href with the returned asset reference as its last attribute; a
\* resolved path placeholder keeps every source attribute other than d, in
\* order, followed by d with the synthesized path.
C25_AmendedStep ==
    /\ \A e \in ImageEvents :
          ImageResolved(e) =>
              /\ Len(writer') = Len(writer) + 1
              /\ KeepsAllBut(Written, e, {"xlink:href", "sodipodi:absref"},
                             "xlink:href", Unwrap(last'.ret))
              /\ get_attribute(Written, "sodipodi:absref") = None
              /\ Written.attrs[Len(Written.attrs)][1] = "xlink:href"
    /\ \A e \in PathEvents :
          PathResolved(e) =>
              /\ Len(writer') = Len(writer) + 1
              /\ KeepsAllBut(Written, e, {"d"}, "d",
                     Unwrap(handle_xml(e, svg_metrics, tpl_track_color, TRUE).ret))
              /\ Written.attrs[Len(Written.attrs)][1] = "d"

C25_KeepsOtherAttributes == [][C25_AmendedStep]_vars

\* a resolved image whose source carried sodipodi:absref and an id after its
\* reference, and a resolved path whose source carried d before its id
C25_Witness ==
    \E i, j \in 1..Len(writer) :
        /\ Len(reader) >= Len(writer)
        /\ reader[i].name = "image" /\ writer[i] # reader[i]
        /\ get_attribute(reader[i], "sodipodi:absref") # None
        /\ reader[j].name = "path" /\ writer[j] # reader[j]
        /\ reader[j].attrs[1][1] = "d"

-----------------------------------------------------------------------------
(* Claims about a failed render (SpecCtx)                                  *)

\* a get_image call whose render failed returns nothing and leaves the memo
\* as it was
FailedRenderStep ==
    (last'.tick # last.tick /\ last'.op = "get_image" /\ last'.render = "failed")
        => /\ last'.ret = None
           /\ UNCHANGED <<map_href, map_size, map_track_color>>

\* a cached href is present only together with the size it was rendered at
HrefWithItsSize ==
    map_href # None =>
        map_size = Some(<<Unwrap(map_href).w, Unwrap(map_href).h>>)

\* C28: when a render triggered by get_image fails (the track has no
\* coordinates, say) get_image returns nothing and the cached href, size and
\* track color are left exactly as before the call; in every reachable state
\* a cached href is present only together with the size it was rendered at.
C28_FailedRenderKeepsMemo == [][FailedRenderStep]_vars /\ []HrefWithItsSize

\* an asset is cached, the file was loaded again without coordinates, and a
\* get_image call for another size failed and returned nothing
C28_Witness ==
    /\ data # None
    /\ Unwrap(data).coords = <<>>
    /\ map_href # None
    /\ last.op = "get_image"
    /\ last.render = "failed"
    /\ last.ret = None
    /\ map_size # Some(<<last.w, last.h>>)

-----------------------------------------------------------------------------
(* Claims about the segments of a contour (SpecFn)                         *)

\* a sequence of points without the points equal to the one before them
RECURSIVE Distinct(_)
Distinct(points) ==
    IF Len(points) < 2 THEN points
    ELSE IF points[2] = points[1]
    THEN Distinct(<<points[1]>> \o SubSeq(points, 3, Len(points)))
    ELSE <<points[1]>> \o Distinct(Tail(points))

\* C30: add_round_capped_segments emits one segment per pair of consecutive
\* distinct points, and a closing segment from the last point back to the
\* first only when the contour is closed and its last point differs from its
\* first; for an open contour no segment back to the first point is emitted.
C30_ClosingSegmentOnlyWhenClosed ==
    fn_call.fn = "add_round_capped_segments" =>
        LET contour == fn_call.contour
            ps == Distinct(contour.points)
            body == [i \in 1..(Len(ps) - 1) |-> <<ps[i], ps[i + 1]>>]
            closing == IF contour.closed /\ ps # <<>> /\ ps[Len(ps)] # ps[1]
                       THEN << <<ps[Len(ps)], ps[1]>> >> ELSE << >>
        IN  fn_ret = body \o closing

-----------------------------------------------------------------------------
(* Claims about the map render job (SpecUi)                                *)

\* the workers spawned by start_map_job that have not finished
RunningWorkers == {i \in DOMAIN jobs : jobs[i].running}

\* C19: in every reachable state of the application, whatever the
\* interleaving of loads, template selections, preview regenerations, polls
\* and worker completions, at most one map render worker started by
\* start_map_job is running.
C19_OneWorkerRunning == Cardinality(RunningWorkers) <= 1

\* the map request of the selected template
DesiredRequest(a) == TemplateRequests[a.selected_template_idx + 1]

\* a step that composes a preview with a rendered map
ComposesWithMap ==
    /\ app'.preview_texture # None
    /\ app'.preview_texture # app.preview_texture
    /\ Unwrap(app'.preview_texture).map_href # None

\* C26: the preview is composed with a rendered map only when the cached
\* preview_map request (pixel width, pixel height, track color) equals the
\* desired map request of the selected template; after any sequence of
\* template selections and job completions it is never composed with a map
\* rendered for a different request.
C26_Step ==
    ComposesWithMap =>
        /\ app.preview_map # None
        /\ DesiredRequest(app) = Some(Unwrap(app.preview_map)[1])
        /\ Unwrap(app'.preview_texture).template = app.selected_template_idx
        /\ Unwrap(Unwrap(app'.preview_texture).map_href) = Unwrap(app.preview_map)[2]
        /\ Unwrap(Unwrap(app'.preview_texture).map_href).request
               = Unwrap(DesiredRequest(app))

\* a preview that is not dirty shows the selected template, with a map
\* rendered for that template's request if with any
CleanPreviewMatches ==
    (~app.preview_dirty /\ app.preview_texture # None) =>
        LET shown == Unwrap(app.preview_texture)
        IN  /\ shown.template = app.selected_template_idx
            /\ shown.map_href # None =>
                  DesiredRequest(app) = Some(Unwrap(shown.map_href).request)

C26_PreviewMapMatchesRequest == [][C26_Step]_vars /\ []CleanPreviewMatches

\* the second template is shown with a map rendered for its request while a
\* worker started for the first template's request is still running
C26_Witness ==
    /\ app.selected_template_idx = 1
    /\ ~app.preview_dirty
    /\ app.preview_texture # None
    /\ Unwrap(app.preview_texture).map_href # None
    /\ Unwrap(Unwrap(app.preview_texture).map_href).request = RequestB
    /\ \E i \in DOMAIN jobs : jobs[i].request = RequestA

\* the coordinates of the loaded track
LoadedCoords == Unwrap(app.gpx_context).coords

\* a result is stored in preview_map only from the channel of the job in
\* flight, and that job was started for the loaded track
StoresOwnResult ==
    (app'.preview_map # None /\ app'.preview_map # app.preview_map) =>
        /\ app.map_job # None
        /\ ~jobs[Unwrap(app.map_job).rx].superseded
        /\ Unwrap(app'.preview_map)[2].coords = jobs[Unwrap(app.map_job).rx].coords

\* the job in flight, the cached map, the map of the preview and the map of
\* an export being written are all of the loaded track
NothingOfPreviousTrack ==
    /\ app.map_job # None => ~jobs[Unwrap(app.map_job).rx].superseded
    /\ app.preview_map # None => Unwrap(app.preview_map)[2].coords = LoadedCoords
    /\ (app.preview_texture # None /\ Unwrap(app.preview_texture).map_href # None)
          => Unwrap(Unwrap(app.preview_texture).map_href).coords = LoadedCoords

ExportsLoadedTrack ==
    (exported' # exported /\ Unwrap(exported').map_href # None) =>
        Unwrap(Unwrap(exported').map_href).coords = LoadedCoords

\* C27: after load_gpx replaces the loaded track, the result of a map render
\* job started for the previous track is never stored in preview_map and
\* never used for a preview or an export, however the worker's completion
\* interleaves with the load and with later polls.
C27_NoStaleResult ==
    /\ [][StoresOwnResult /\ ExportsLoadedTrack]_vars
    /\ []NothingOfPreviousTrack

\* b.gpx replaced a track whose worker is still running, and the map cached
\* since is of b.gpx
C27_Witness ==
    /\ app.gpx_path = Some("b.gpx")
    /\ \E i \in DOMAIN jobs : jobs[i].superseded /\ jobs[i].running
                                /\ jobs[i].coords # LoadedCoords
    /\ app.preview_map # None
    /\ Unwrap(app.preview_map)[2].coords = LoadedCoords

\* the job in flight
InFlight == Unwrap(app.map_job)

\* the step stores the job's own request with its href and marks the preview
\* dirty
StoredOwn ==
    /\ app'.preview_map # None
    /\ Unwrap(app'.preview_map)[1] = InFlight.request
    /\ Unwrap(app'.preview_map)[2].request = InFlight.request
    /\ app'.preview_dirty

ReportsRenderError == app'.status_message = Some("Map render error")

\* the step is a load that dropped the job
DroppedByLoad ==
    /\ app'.status_message = Some("GPX loaded successfully")
    /\ app'.preview_map = None
    /\ app'.preview_dirty

\* a job whose worker has not ended is kept in flight by a poll
KeptInFlight ==
    (app.map_job # None /\ jobs[InFlight.rx].running) =>
        poll_map_job(app, jobs) = <<app, jobs>>

\* C29: if the worker of the job in flight delivers a result or ends, and
\* poll_map_job keeps being called, map_job eventually becomes empty, and at
\* that point preview_map holds the job's own request with its href and the
\* preview is dirty, or status_message reports the render error; a job not
\* yet completed is kept in flight by every poll.
C29_EmptiedStep ==
    (app.map_job # None /\ app'.map_job = None) =>
        (StoredOwn \/ ReportsRenderError)

C29_JobEventuallyPolled ==
    /\ (app.map_job # None) ~> (app.map_job = None)
    /\ [][C29_EmptiedStep]_vars
    /\ []KeptInFlight

\* C29, amended: the same, where map_job is emptied by a poll; a load_gpx
\* may empty it first, dropping the job and its result.
C29_AmendedStep ==
    (app.map_job # None /\ app'.map_job = None) =>
        (StoredOwn \/ ReportsRenderError \/ DroppedByLoad)

C29_JobPolledOrDropped ==
    /\ (app.map_job # None) ~> (app.map_job = None)
    /\ [][C29_AmendedStep]_vars
    /\ []KeptInFlight

\* a poll took the result of a job: no job in flight, the map cached, the
\* preview dirty
C29_Witness ==
    /\ app.map_job = None
    /\ app.preview_map # None
    /\ app.preview_dirty
    /\ app.preview_texture = None
    /\ jobs = <<>>

-----------------------------------------------------------------------------
(* Claims about the elevation path (SpecPath)                              *)

\* the sum of the numerators of the vertical offsets of the first n segments
\* of the path p
RECURSIVE VerticalSum(_, _)
VerticalSum(p, n) ==
    IF n = 0 THEN 0 ELSE p[3 * n + 2][1].num + VerticalSum(p, n - 1)

\* C17: for every elevation profile, the empty one included, the path built
\* by get_path("path_elevation") starts with the descriptor's prefix and its
\* start point verbatim, then has one relative segment per sample of the
\* profile in its order (the offsets up to a sample add up to the sample's
\* height over the baseline), then one closing relative segment with zero
\* horizontal offset; the vertical offsets of all segments, the closing one
\* included, sum to zero.
C17_PathReturnsToBaseline ==
    fn_call.fn = "get_path" =>
        LET d == Unwrap(data)
            inp == fn_call.inp
            p == Unwrap(fn_ret)
            n == Len(d.elevation)
            segs == IF n = 0 THEN 1 ELSE 3 * n
            el_width == Max(d.elevation_max - d.elevation_min, 100)
        IN  /\ fn_ret # None
            /\ Len(p) = 2 + segs + 3
            /\ p[1] = <<inp.prefix>>
            /\ p[2] = inp.ss
            /\ \A i \in 1..n :
                  /\ p[3 * i] = <<"l">>
                  /\ Len(p[3 * i + 1]) = 1 /\ Len(p[3 * i + 2]) = 1
                  /\ p[3 * i + 2][1].den = el_width
                  /\ VerticalSum(p, i)
                         = (d.elevation[i].e - d.elevation_min) * inp.height
            /\ p[Len(p) - 2] = <<"l">>
            /\ p[Len(p) - 1] = <<"0">>
            /\ p[Len(p)][1].den = el_width
            /\ VerticalSum(p, n) + p[Len(p)][1].num = 0

\* the path of a profile of two samples, the second above the baseline
C17_Witness ==
    /\ fn_call.fn = "get_path"
    /\ Len(Unwrap(data).elevation) = 2
    /\ Unwrap(data).elevation[2].e > Unwrap(data).elevation_min
    /\ Unwrap(fn_ret)[Len(Unwrap(fn_ret))][1].num # 0

====
